---------------------------- MODULE Spec2Model ----------------------------
(***************************************************************************)
(* A model of the oc-mirror refactor: argument validation, the planning of *)
(* image copies, the mirror workflow (Process) with its cache registry     *)
(* goroutine, and the archive builder with its history store.              *)
(*                                                                         *)
(* Strings are modelled as sequences of lexemes: the Go expression         *)
(*   dockerProtocol + strings.Join([]string{fqdn, path}, "/") + ":" + tag  *)
(* is the sequence <<"docker://", fqdn, "/", path, ":", tag>>, so that a   *)
(* concatenation in the code is a concatenation in the model and a parse   *)
(* of the result can fail.                                                 *)
(***************************************************************************)
EXTENDS Integers, Sequences, FiniteSets, TLC

VARIABLES
    impl,          \* which Process source runs: "flowctl" or "part006"
    args,          \* positional arguments handed to Process
    Options,       \* common.MirrorOptions (the fields the flow reads)
    config,        \* the image set configuration on disk
    portBound,     \* environment: the cache registry port is already bound
    pc,            \* position of the main flow inside Process
    ret,           \* what Process returned: "none", "ok", "err", "exit"
    reg,           \* state of the goroutine running StartLocalRegistry
    copiedImages,  \* v2alpha1.CollectorSchema handed from collect to batch
    cache,         \* references the cache registry serves
    dispatched,    \* the copies the batch worker dispatched
    events,        \* log of the phases the process went through, in order
    relatedImgs,   \* planner input: the related images, in iteration order
    additionalImgs,\* planner input: the additionalImages of the configuration
    planMode,      \* planner input: the workflow mode planned for
    planned,       \* planner position and output
    collector,     \* which collector's planner is applied
    collected,     \* what that planner returned
    historyDir,    \* history files on disk: time in the name -> digest set
    clock,         \* wall clock, in ticks
    archive,       \* how often each blob was written by the last BuildArchive
    lastBuild,     \* the last BuildArchive call: its inputs and its results
    del,           \* a DeleteRegistryImages call: its inputs and its results
    unarch,        \* an Unarchive call: the archive, the disk, the result
    lastAppend,    \* the last call of history Append: its inputs and its results
    fingerprints,  \* two catalog entries and the fingerprints of their filters
    fastPath,      \* a catalog, the working directory and the cache Collect finds
    twice,         \* one related-images map and the copy lists of two plannings of it
    mgr            \* the collector package: its managers, its collectors, the last run

flowVars == <<impl, args, Options, config, portBound, pc, ret, reg, copiedImages, cache,
              dispatched, events>>
planVars == <<relatedImgs, additionalImgs, planMode, planned, collector, collected>>
archVars == <<historyDir, clock, archive, lastBuild>>
callVars == <<twice, mgr>>
toolVars == <<del, unarch, lastAppend, fingerprints, fastPath, callVars>>
vars == <<flowVars, planVars, archVars, toolVars>>

-----------------------------------------------------------------------------
(* Strings as sequences of lexemes                                         *)

fileProtocol == "file://"
dockerProtocol == "docker://"
ociProtocol == "oci://"

Transports == {dockerProtocol, ociProtocol, fileProtocol}
Separators == {":", "@", "/"}

\* the string a sequence of lexemes stands for
RECURSIVE Flatten(_)
Flatten(s) == IF s = <<>> THEN "" ELSE Head(s) \o Flatten(Tail(s))

\* strings.Contains(s, lexeme)
Contains(s, x) == \E i \in 1..Len(s) : s[i] = x

\* strings.TrimPrefix(s, lexeme)
TrimPrefix(s, x) == IF Len(s) > 0 /\ s[1] = x THEN Tail(s) ELSE s

\* path.Join(dir, name)
PathJoin(dir, name) == IF Len(dir) = 0 THEN <<name>> ELSE dir \o <<"/", name>>

\* strings.Join([]string{a, b}, "/")
JoinSlash(a, b) == a \o <<"/">> \o b

\* index of the first occurrence of lexeme x in s, 0 when absent
RECURSIVE IndexFrom(_, _, _)
IndexFrom(s, x, i) ==
    IF i > Len(s) THEN 0
    ELSE IF s[i] = x THEN i
    ELSE IndexFrom(s, x, i + 1)

IndexOf(s, x) == IndexFrom(s, x, 1)

\* index of the first occurrence of the sequence old in s, 0 when absent
RECURSIVE IndexOfSeq(_, _, _)
IndexOfSeq(s, old, i) ==
    IF i + Len(old) - 1 > Len(s) THEN 0
    ELSE IF SubSeq(s, i, i + Len(old) - 1) = old THEN i
    ELSE IndexOfSeq(s, old, i + 1)

\* strings.Replace(s, old, new, 1)
ReplaceFirst(s, old, new) ==
    LET i == IndexOfSeq(s, old, 1)
    IN IF i = 0 THEN s
       ELSE SubSeq(s, 1, i - 1) \o new \o SubSeq(s, i + Len(old), Len(s))

\* a lexeme that can be a name: not empty, not a separator, not a transport
IsName(x) == x # "" /\ x \notin Separators /\ x \notin Transports

-----------------------------------------------------------------------------
(* image.ParseRef and image.ImageSpec                                      *)
(*   [transport://][domain/]path[:tag][@algorithm:digest]                  *)

ParseErr == [ok |-> FALSE]

\* the part of a docker reference after domain/path: [:tag][@algorithm:digest]
ParseSuffix(rest) ==
    LET at      == IndexOf(rest, "@")
        tagPart == IF at = 0 THEN rest ELSE SubSeq(rest, 1, at - 1)
        digPart == IF at = 0 THEN <<>> ELSE SubSeq(rest, at, Len(rest))
        tagOk   == \/ tagPart = <<>>
                   \/ /\ Len(tagPart) >= 2
                      /\ tagPart[1] = ":"
                      /\ \A i \in 2..Len(tagPart) : IsName(tagPart[i])
        digOk   == \/ digPart = <<>>
                   \/ /\ Len(digPart) = 4
                      /\ IsName(digPart[2])
                      /\ digPart[3] = ":"
                      /\ IsName(digPart[4])
    IN IF ~tagOk \/ ~digOk THEN ParseErr
       ELSE [ok        |-> TRUE,
             Tag       |-> IF tagPart = <<>> THEN <<>> ELSE Tail(tagPart),
             Algorithm |-> IF digPart = <<>> THEN <<>> ELSE <<digPart[2]>>,
             Digest    |-> IF digPart = <<>> THEN <<>> ELSE <<digPart[4]>>]

\* a path: names separated by "/"
IsPath(p) ==
    /\ Len(p) % 2 = 1
    /\ \A i \in 1..Len(p) : IF i % 2 = 1 THEN IsName(p[i]) ELSE p[i] = "/"

\* index of the first ":" or "@" at or after position i, Len(s) + 1 when none
RECURSIVE SuffixStart(_, _)
SuffixStart(s, i) ==
    IF i > Len(s) THEN Len(s) + 1
    ELSE IF s[i] \in {":", "@"} THEN i
    ELSE SuffixStart(s, i + 1)

\* path.Base: what follows the last "/"
RECURSIVE PathBase(_)
PathBase(s) ==
    LET i == IndexOf(s, "/")
    IN IF i = 0 THEN s ELSE PathBase(SubSeq(s, i + 1, Len(s)))

ParseRef(imgRef) ==
    LET hasT      == Len(imgRef) > 0 /\ imgRef[1] \in Transports
        transport == IF hasT THEN imgRef[1] ELSE dockerProtocol
        ref       == IF hasT THEN Tail(imgRef) ELSE imgRef
        cut       == SuffixStart(ref, 1)
        name      == SubSeq(ref, 1, cut - 1)
    IN IF Len(ref) = 0 THEN ParseErr
       ELSE IF transport = dockerProtocol
       THEN IF Len(name) < 3 \/ ~IsPath(name)
            THEN ParseErr
            ELSE LET sfx == ParseSuffix(SubSeq(ref, cut, Len(ref)))
                 IN IF ~sfx.ok THEN ParseErr
                    ELSE IF sfx.Tag = <<>> /\ sfx.Digest = <<>> THEN ParseErr
                    ELSE [ok |-> TRUE,
                          Transport |-> transport,
                          Reference |-> ref,
                          ReferenceWithTransport |-> <<transport>> \o ref,
                          Domain |-> <<name[1]>>,
                          PathComponent |-> SubSeq(name, 3, Len(name)),
                          Tag |-> sfx.Tag,
                          Algorithm |-> sfx.Algorithm,
                          Digest |-> sfx.Digest]
       ELSE IF ~IsPath(TrimPrefix(ref, "/")) THEN ParseErr
            ELSE [ok |-> TRUE,
                  Transport |-> transport,
                  Reference |-> ref,
                  ReferenceWithTransport |-> <<transport>> \o ref,
                  Domain |-> <<>>,
                  PathComponent |-> ref,
                  Tag |-> <<>>,
                  Algorithm |-> <<>>,
                  Digest |-> <<>>]

IsImageByDigestOnly(spec) == spec.Tag = <<>> /\ spec.Digest # <<>>
IsImageByTagAndDigest(spec) == spec.Tag # <<>> /\ spec.Digest # <<>>

\* ImageSpec.SetTag: replaces tag and digest of the reference by the tag
SetTag(spec, tag) ==
    LET ref == IF spec.Transport = dockerProtocol
               THEN spec.Domain \o <<"/">> \o spec.PathComponent \o <<":">> \o tag
               ELSE spec.Reference \o <<":">> \o tag
    IN [spec EXCEPT !.Tag = tag, !.Algorithm = <<>>, !.Digest = <<>>,
                    !.Reference = ref,
                    !.ReferenceWithTransport = <<spec.Transport>> \o ref]

-----------------------------------------------------------------------------
(* Modes and image types                                                   *)

mirrorToDisk == "mirror-to-disk"
diskToMirror == "disk-to-mirror"
mirrorToMirror == "mirror-to-mirror"
dryrun == "mirror-to-disk"

TypeOperatorCatalog == "operatorCatalog"
TypeOperatorRelatedImage == "operatorRelatedImage"
TypeGeneric == "generic"

IsMirrorToDisk(o) == o.Mode = mirrorToDisk
IsMirrorToMirror(o) == o.Mode = mirrorToMirror
IsDiskToMirror(o) == o.Mode = diskToMirror

CopyImageSchema(src, dest, origin, type, rebuiltTag) ==
    [Source |-> src, Destination |-> dest, Origin |-> origin,
     Type |-> type, RebuiltTag |-> rebuiltTag]

-----------------------------------------------------------------------------
(* Argument validation: MirrorValidate.CheckArgs                           *)

mirrorFunction == "copy"

keyWords ==
    << "cluster-resources", "dry-run", "graph-preparation", "helm", "hold-operator",
       "hold-release", "delete", "logs", "operator-catalogs", "release-images",
       "signatures" >>

\* the strings time.Parse(time.DateOnly, s) accepts
DateOnlyStrings == { <<"2024-01-02">> }

\* first argument that contains the lexeme, <<>> when none does
RECURSIVE argsContainFrom(_, _, _)
argsContainFrom(as, value, i) ==
    IF i > Len(as) THEN [arg |-> <<>>, ok |-> FALSE]
    ELSE IF Contains(as[i], value) THEN [arg |-> as[i], ok |-> TRUE]
    ELSE argsContainFrom(as, value, i + 1)

argsContain(as, value) == argsContainFrom(as, value, 1)

RECURSIVE checkKeyWordFrom(_, _, _)
checkKeyWordFrom(kws, check, i) ==
    IF i > Len(kws) THEN ""
    ELSE IF Contains(check, kws[i]) THEN kws[i]
    ELSE checkKeyWordFrom(kws, check, i + 1)

checkKeyWord(kws, check) == checkKeyWordFrom(kws, check, 1)

\* the three mode checks return the options as they leave them, set and err
ModeResult(opts, set, err) == [opts |-> opts, set |-> set, err |-> err]

checkAndSetModeD2M(as, opts, set) ==
    IF ~set /\ opts.From # <<>> /\ opts.Workspace = <<>>
    THEN IF ~Contains(opts.From, fileProtocol)
         THEN ModeResult(opts, FALSE, "when using --from it must have a file:// prefix")
         ELSE LET found == argsContain(as, dockerProtocol)
              IN IF found.ok
                 THEN ModeResult(
                        [opts EXCEPT !.Mode = diskToMirror,
                                     !.WorkingDir = PathJoin(TrimPrefix(opts.From, fileProtocol), "working-dir"),
                                     !.Destination = found.arg,
                                     !.OriginalDestination = found.arg,
                                     !.DestinationRegistry = TrimPrefix(found.arg, dockerProtocol)],
                        TRUE, "")
                 ELSE ModeResult(opts, FALSE, "when using --from ensure the destination has a docker:// prefix")
    ELSE ModeResult(opts, FALSE, "")

checkAndSetModeM2D(as, opts, set) ==
    IF ~set /\ opts.From = <<>> /\ opts.Workspace = <<>>
    THEN LET found == argsContain(as, fileProtocol)
         IN IF found.ok
            THEN ModeResult(
                   [opts EXCEPT !.Mode = mirrorToDisk,
                                !.WorkingDir = PathJoin(TrimPrefix(found.arg, fileProtocol), "working-dir"),
                                !.Destination = TrimPrefix(found.arg, fileProtocol),
                                !.OriginalDestination = found.arg],
                   TRUE, "")
            ELSE ModeResult(opts, FALSE, "ensure destination has a file:// prefix")
    ELSE ModeResult(opts, FALSE, "")

checkAndSetModeM2M(as, opts, set) ==
    IF ~set /\ opts.From = <<>> /\ opts.Workspace # <<>>
    THEN IF Contains(opts.Workspace, fileProtocol)
         THEN LET found == argsContain(as, dockerProtocol)
              IN IF found.ok
                 THEN ModeResult(
                        [opts EXCEPT !.Mode = mirrorToMirror,
                                     !.WorkingDir = PathJoin(TrimPrefix(opts.Workspace, fileProtocol), "working-dir"),
                                     !.Destination = found.arg,
                                     !.OriginalDestination = found.arg,
                                     !.DestinationRegistry = TrimPrefix(found.arg, dockerProtocol)],
                        TRUE, "")
                 ELSE ModeResult(opts, FALSE, "ensure the destination has a docker:// prefix")
         ELSE ModeResult(opts, FALSE, "when using the --workspace flag ensure it has a file:// prefix")
    ELSE ModeResult(opts, FALSE, "")

\* returns [opts, err]
setModeAndDestination(as, opts) ==
    LET r1 == checkAndSetModeD2M(as, opts, FALSE) IN
    IF r1.err # "" THEN [opts |-> r1.opts, err |-> r1.err]
    ELSE LET r2 == checkAndSetModeM2D(as, r1.opts, r1.set) IN
    IF r2.err # "" THEN [opts |-> r2.opts, err |-> r2.err]
    ELSE LET r3 == checkAndSetModeM2M(as, r2.opts, r2.set) IN
    IF r3.err # "" THEN [opts |-> r3.opts, err |-> r3.err]
    ELSE [opts |-> IF r3.opts.DryRun THEN [r3.opts EXCEPT !.Mode = dryrun] ELSE r3.opts,
          err |-> ""]

mirrorOptionsValidate(opts) ==
    IF opts.SinceString # <<>> /\ opts.SinceString \notin DateOnlyStrings
    THEN "--since flag needs to be in format yyyy-MM-dd"
    ELSE ""

\* returns [opts, err]
CheckArgs(as, opts) ==
    IF opts.ConfigPath = <<>>
    THEN [opts |-> opts, err |-> "use the --config flag it is mandatory"]
    ELSE LET m == setModeAndDestination(as, opts) IN
    IF m.err # "" THEN m
    ELSE IF /\ Contains(m.opts.OriginalDestination, fileProtocol)
            /\ m.opts.From = <<>>
            /\ checkKeyWord(keyWords, m.opts.OriginalDestination) # ""
    THEN [opts |-> m.opts, err |-> "the destination contains an internal oc-mirror keyword"]
    ELSE IF mirrorOptionsValidate(m.opts) # ""
    THEN [opts |-> m.opts, err |-> mirrorOptionsValidate(m.opts)]
    ELSE [opts |-> [m.opts EXCEPT !.Function = mirrorFunction], err |-> ""]

-----------------------------------------------------------------------------
(* The operator collector's planning of copies                             *)

destinationRegistry(o) ==
    IF o.DestinationRegistry = <<>>
    THEN IF IsDiskToMirror(o) \/ IsMirrorToMirror(o)
         THEN TrimPrefix(o.Destination, dockerProtocol)
         ELSE o.LocalStorageFQDN
    ELSE o.DestinationRegistry

\* prepareM2DCopyBatch, the destination without its tag
prepareM2DDestBase(o, img, imgSpec) ==
    CASE img.Type = TypeOperatorCatalog /\ img.TargetCatalog # <<>> ->
            <<dockerProtocol>> \o JoinSlash(destinationRegistry(o), img.TargetCatalog)
      [] img.Type = TypeOperatorCatalog /\ imgSpec.Transport = ociProtocol ->
            <<dockerProtocol>> \o JoinSlash(destinationRegistry(o), img.Name)
      [] OTHER ->
            <<dockerProtocol>> \o JoinSlash(destinationRegistry(o), imgSpec.PathComponent)

\* prepareM2DCopyBatch, the branch of the switch that ends the destination
prepareM2DTagCase(img, imgSpec) ==
    CASE img.Type = TypeOperatorCatalog /\ img.TargetTag # <<>> -> 1
      [] imgSpec.Tag = <<>> /\ imgSpec.Transport = ociProtocol -> 2
      [] IsImageByDigestOnly(imgSpec) -> 3
      [] IsImageByTagAndDigest(imgSpec) -> 4
      [] OTHER -> 5

\* prepareM2DCopyBatch, the destination: the second branch appends "::latest"
prepareM2DDest(base, tagCase, img, imgSpec) ==
    CASE tagCase = 1 -> base \o <<":">> \o img.TargetTag
      [] tagCase = 2 -> base \o <<":", ":", "latest">>
      [] tagCase = 3 -> base \o <<":">> \o imgSpec.Algorithm \o <<"-">> \o imgSpec.Digest
      [] OTHER -> base \o <<":">> \o imgSpec.Tag

\* prepareM2DCopyBatch, the source: by digest when the image has tag and digest
prepareM2DSrc(tagCase, imgSpec) ==
    IF tagCase = 4
    THEN <<imgSpec.Transport>> \o JoinSlash(imgSpec.Domain, imgSpec.PathComponent)
             \o <<"@">> \o imgSpec.Algorithm \o <<":">> \o imgSpec.Digest
    ELSE imgSpec.ReferenceWithTransport

\* prepareM2DCopyBatch, what is appended for an image not yet included
prepareM2DCopies(o, img, src, dest, origin) ==
    IF img.Type = TypeOperatorCatalog /\ IsMirrorToMirror(o)
    THEN << CopyImageSchema(src, dest, origin, img.Type, img.RebuiltTag),
            CopyImageSchema(src, ReplaceFirst(dest, destinationRegistry(o), o.LocalStorageFQDN),
                            origin, img.Type, img.RebuiltTag) >>
    ELSE << CopyImageSchema(src, dest, origin, img.Type, img.RebuiltTag) >>

\* one iteration of the loop of prepareM2DCopyBatch, the image parsed
prepareM2DCopyParsed(o, acc, img, imgSpec) ==
    IF img.Image \in acc.alreadyIncluded THEN acc
    ELSE [result |-> acc.result \o
                     prepareM2DCopies(o, img,
                         prepareM2DSrc(prepareM2DTagCase(img, imgSpec), imgSpec),
                         prepareM2DDest(prepareM2DDestBase(o, img, imgSpec),
                                        prepareM2DTagCase(img, imgSpec), img, imgSpec),
                         imgSpec.ReferenceWithTransport),
          alreadyIncluded |-> acc.alreadyIncluded \cup {img.Image}]

\* one iteration of the loop of prepareM2DCopyBatch; acc = [result, alreadyIncluded]
prepareM2DCopyStep(o, acc, img) ==
    IF img.Image = <<>> THEN acc
    ELSE IF ~ParseRef(img.Image).ok THEN acc
    ELSE prepareM2DCopyParsed(o, acc, img, ParseRef(img.Image))

RECURSIVE prepareM2DCopyLoop(_, _, _, _)
prepareM2DCopyLoop(o, images, i, acc) ==
    IF i > Len(images) THEN acc
    ELSE prepareM2DCopyLoop(o, images, i + 1, prepareM2DCopyStep(o, acc, images[i]))

EmptyBatch == [result |-> <<>>, alreadyIncluded |-> {}]

prepareM2DCopyBatch(o, images) == prepareM2DCopyLoop(o, images, 1, EmptyBatch).result

\* one iteration of the loop of prepareD2MCopyBatch (generateV1DestTags is
\* never set, the mode is not delete)
prepareD2MCopyStep(o, acc, img) ==
    IF img.Image = <<>> THEN acc
    ELSE LET imgSpec == ParseRef(img.Image) IN
    IF ~imgSpec.ok THEN acc
    ELSE
    LET isCtlg == img.Type = TypeOperatorCatalog
        comp == CASE isCtlg /\ img.TargetCatalog # <<>> -> img.TargetCatalog
                  [] imgSpec.Transport = ociProtocol -> img.Name
                  [] OTHER -> imgSpec.PathComponent
        srcBase == <<dockerProtocol>> \o JoinSlash(o.LocalStorageFQDN, comp)
        destBase == JoinSlash(o.Destination, comp)
        digestTag == imgSpec.Algorithm \o <<"-">> \o imgSpec.Digest
        srcTag == CASE img.RebuiltTag # <<>> -> img.RebuiltTag
                    [] isCtlg /\ img.TargetTag # <<>> -> img.TargetTag
                    [] imgSpec.Tag = <<>> -> digestTag
                    [] OTHER -> imgSpec.Tag
        destTag == CASE isCtlg /\ img.TargetTag # <<>> -> img.TargetTag
                     [] imgSpec.Tag = <<>> -> digestTag
                     [] OTHER -> imgSpec.Tag
        copy == CopyImageSchema(srcBase \o <<":">> \o srcTag, destBase \o <<":">> \o destTag,
                                imgSpec.ReferenceWithTransport, img.Type, img.RebuiltTag)
    IN IF img.Image \in acc.alreadyIncluded THEN acc
       ELSE [result |-> Append(acc.result, copy),
             alreadyIncluded |-> acc.alreadyIncluded \cup {img.Image}]

RECURSIVE prepareD2MCopyLoop(_, _, _, _)
prepareD2MCopyLoop(o, images, i, acc) ==
    IF i > Len(images) THEN acc
    ELSE prepareD2MCopyLoop(o, images, i + 1, prepareD2MCopyStep(o, acc, images[i]))

prepareD2MCopyBatch(o, images) == prepareD2MCopyLoop(o, images, 1, EmptyBatch).result

\* the name part shared by the three catalog references of mirror-to-mirror
ctlgRefBase(spec, img, registry) ==
    CASE img.TargetCatalog # <<>> -> JoinSlash(registry, img.TargetCatalog)
      [] spec.Transport = ociProtocol -> JoinSlash(registry, img.Name)
      [] OTHER -> JoinSlash(registry, spec.PathComponent)

\* the tag switch shared by saveCtlgToCacheRef and destCtlgRef
ctlgRefTag(spec, img) ==
    CASE img.TargetTag # <<>> -> <<":">> \o img.TargetTag
      [] spec.Tag = <<>> /\ spec.Transport = ociProtocol -> <<":", "latest">>
      [] IsImageByDigestOnly(spec) -> <<":">> \o spec.Algorithm \o <<"-">> \o spec.Digest
      [] OTHER -> <<":">> \o spec.Tag

saveCtlgToCacheRef(spec, img, cacheRegistry) ==
    ctlgRefBase(spec, img, cacheRegistry) \o ctlgRefTag(spec, img)

\* the second case of the tag switch has an empty body: no tag is appended
rebuiltCtlgRef(spec, img, cacheRegistry) ==
    ctlgRefBase(spec, img, cacheRegistry) \o
        (CASE img.RebuiltTag # <<>> -> <<":">> \o img.RebuiltTag
           [] img.TargetTag # <<>> -> <<>>
           [] spec.Tag = <<>> /\ spec.Transport = ociProtocol -> <<":", "latest">>
           [] IsImageByDigestOnly(spec) -> <<":">> \o spec.Algorithm \o <<"-">> \o spec.Digest
           [] OTHER -> <<":">> \o spec.Tag)

destCtlgRef(spec, img, destReg) ==
    ctlgRefBase(spec, img, destReg) \o ctlgRefTag(spec, img)

\* CatalogImageDispatcher.dispatch, after a successful ParseRef
CatalogImageDispatch(imgSpec, img, cacheRegistry, destReg) ==
    << CopyImageSchema(imgSpec.ReferenceWithTransport,
                       saveCtlgToCacheRef(imgSpec, img, cacheRegistry),
                       imgSpec.ReferenceWithTransport, img.Type, img.RebuiltTag),
       CopyImageSchema(rebuiltCtlgRef(imgSpec, img, cacheRegistry),
                       destCtlgRef(imgSpec, img, destReg),
                       imgSpec.ReferenceWithTransport, img.Type, img.RebuiltTag) >>

\* OtherImageDispatcher.dispatch, after a successful ParseRef
OtherImageDispatch(imgSpec, img, destReg) ==
    LET base == JoinSlash(destReg, imgSpec.PathComponent)
        dest == CASE imgSpec.Tag = <<>> /\ imgSpec.Transport = ociProtocol ->
                        base \o <<":", "latest">>
                  [] IsImageByDigestOnly(imgSpec) ->
                        base \o <<":">> \o imgSpec.Algorithm \o <<"-">> \o imgSpec.Digest
                  [] OTHER -> base \o <<":">> \o imgSpec.Tag
        src == IF IsImageByTagAndDigest(imgSpec)
               THEN <<imgSpec.Transport>> \o JoinSlash(imgSpec.Domain, imgSpec.PathComponent)
                        \o <<"@">> \o imgSpec.Algorithm \o <<":">> \o imgSpec.Digest
               ELSE imgSpec.ReferenceWithTransport
    IN << CopyImageSchema(src, dest, imgSpec.ReferenceWithTransport, img.Type, <<>>) >>

dispatchImagesForM2MStep(o, acc, img) ==
    IF img.Image = <<>> THEN acc
    ELSE LET imgSpec == ParseRef(img.Image) IN
    IF ~imgSpec.ok THEN acc
    ELSE
    LET cacheRegistry == <<dockerProtocol>> \o o.LocalStorageFQDN
        copies == IF img.Type = TypeOperatorCatalog
                  THEN CatalogImageDispatch(imgSpec, img, cacheRegistry, o.Destination)
                  ELSE OtherImageDispatch(imgSpec, img, o.Destination)
    IN IF img.Image \in acc.alreadyIncluded THEN acc
       ELSE [result |-> acc.result \o copies,
             alreadyIncluded |-> acc.alreadyIncluded \cup {img.Image}]

RECURSIVE dispatchImagesForM2MLoop(_, _, _, _)
dispatchImagesForM2MLoop(o, images, i, acc) ==
    IF i > Len(images) THEN acc
    ELSE dispatchImagesForM2MLoop(o, images, i + 1, dispatchImagesForM2MStep(o, acc, images[i]))

dispatchImagesForM2M(o, images) == dispatchImagesForM2MLoop(o, images, 1, EmptyBatch).result

\* the mode switch that ends CollectOperator.Collect
OperatorAllImages(o, images) ==
    CASE IsMirrorToDisk(o) -> prepareM2DCopyBatch(o, images)
      [] IsMirrorToMirror(o) -> dispatchImagesForM2M(o, images)
      [] IsDiskToMirror(o) -> prepareD2MCopyBatch(o, images)
      [] OTHER -> <<>>

-----------------------------------------------------------------------------
(* The operator collector: one catalog of the configuration                *)
(* A catalog entry is [Catalog, TargetTag, TargetCatalog, Full, Related];  *)
(* Related are the images the catalog handler reads out of the catalog.    *)

LocalStorageFQDN == <<"localhost:55000">>

CatalogByTag == <<"reg.io", "/", "ns", "/", "ctlg", ":", "v1">>
CatalogOther == <<"reg.io", "/", "ns", "/", "index", ":", "v2">>
CatalogOCI == <<ociProtocol, "dir", "/", "ctlg">>

operatorCatalogFilteredDir == "filtered-catalogs"
operatorCatalogConfigDir == "catalog-config"

isFullCatalog(catalog) == Len(catalog.Packages) = 0 /\ catalog.Full

jsonChannel(ch) == "{name:" \o ch \o "}"

\* json.Marshal of a list: the elements in the order of the list
RECURSIVE jsonChannels(_, _)
jsonChannels(list, i) ==
    IF i > Len(list) THEN ""
    ELSE (IF i > 1 THEN "," ELSE "") \o jsonChannel(list[i]) \o jsonChannels(list, i + 1)

jsonPackage(pkg) ==
    "{name:" \o pkg.Name \o ",channels:[" \o jsonChannels(pkg.Channels, 1) \o "]}"

RECURSIVE jsonPackages(_, _)
jsonPackages(list, i) ==
    IF i > Len(list) THEN ""
    ELSE (IF i > 1 THEN "," ELSE "") \o jsonPackage(list[i]) \o jsonPackages(list, i + 1)

\* json.Marshal of an Operator entry: its fields in the order of the struct
jsonMarshal(c) ==
    "{packages:[" \o jsonPackages(c.Packages, 1) \o "]"
        \o ",catalog:" \o Flatten(c.Catalog)
        \o ",full:" \o (IF c.Full THEN "true" ELSE "false")
        \o ",targetCatalog:" \o Flatten(c.TargetCatalog)
        \o ",targetTag:" \o Flatten(c.TargetTag) \o "}"

\* fmt.Sprintf("%x", md5.Sum(bytes)): a hex string that differs whenever the
\* bytes differ; it is written as the bytes it was computed from
md5Hex(bytes) == "md5(" \o bytes \o ")"

\* md5 over the serialization of the entry with TargetCatalog and TargetTag
\* cleared
digestOfFilter(catalog) ==
    LET c == [catalog EXCEPT !.TargetCatalog = <<>>, !.TargetTag = <<>>]
    IN << md5Hex(jsonMarshal(c)) >>

\* filepath.Abs
FilepathAbs(p) == IF Len(p) > 0 /\ p[1] = "/" THEN p ELSE <<"/", "cwd", "/">> \o p

\* filepath.Dir and filepath.Base of a path of at least two names
FilepathDir(p) == SubSeq(p, 1, Len(p) - 2)
FilepathBase(p) == PathBase(p)

\* the reference of the filtered catalog in the cache
cachedCatalog(o, catalog, filteredTag) ==
    LET srcImgSpec == ParseRef(catalog.Catalog)
        comp == CASE catalog.TargetCatalog # <<>> -> catalog.TargetCatalog
                  [] srcImgSpec.Transport = ociProtocol -> PathBase(srcImgSpec.Reference)
                  [] OTHER -> srcImgSpec.PathComponent
    IN <<dockerProtocol>> \o JoinSlash(o.LocalStorageFQDN, comp) \o <<":">> \o filteredTag

\* a reference is served by the cache registry
InCache(cacheSet, ref) ==
    LET spec == ParseRef(ref) IN spec.ok /\ spec.Reference \in cacheSet

\* the result of os.ReadFile and of manifest.GetDigest: [err, content]
NoSuchFile == [err |-> "ENOENT", content |-> ""]
ManifestUnknown == [err |-> "manifest unknown", content |-> ""]
ReadOk(content) == [err |-> "", content |-> content]

\* the filter never matches
isAlreadyFilteredNever(srcImage, getDigest, filteredImageDigest) == FALSE

\* isAlreadyFiltered: the cache serves srcImage with the digest of the file
isAlreadyFiltered(srcImage, getDigest, filteredImageDigest) ==
    IF ~ParseRef(srcImage).ok THEN FALSE
    ELSE IF getDigest.err # "" THEN FALSE
    ELSE filteredImageDigest = getDigest.content

FilteredConfigPath(filterDigest) ==
    <<operatorCatalogFilteredDir, "/">> \o filterDigest \o <<"/", operatorCatalogConfigDir>>

\* the part of Collect that decides how a catalog whose digest was read is
\* treated. readFile is the digest file of the filter, getDigest the digest
\* of the filtered catalog in the cache, onDisk the images of the filtered
\* configuration on disk. filtered says whether filterCatalog was called,
\* related are the images of the configuration Collect goes on with.
CatalogFilterResultOf(o, op, readFile, getDigest, onDisk) ==
    LET filterDigest == digestOfFilter(op)
    IN IF /\ readFile.err = "" /\ Len(filterDigest) > 0
          /\ isAlreadyFiltered(cachedCatalog(o, op, filterDigest), getDigest, readFile.content)
       THEN [FilteredConfigPath |-> FilteredConfigPath(filterDigest), ToRebuild |-> FALSE,
             rebuiltTag |-> filterDigest, filtered |-> FALSE, related |-> onDisk]
       ELSE IF ~isFullCatalog(op)
       THEN [FilteredConfigPath |-> FilteredConfigPath(filterDigest), ToRebuild |-> TRUE,
             rebuiltTag |-> filterDigest, filtered |-> TRUE, related |-> op.Related]
       ELSE [FilteredConfigPath |-> <<>>, ToRebuild |-> FALSE, rebuiltTag |-> <<>>,
             filtered |-> FALSE, related |-> op.Related]

\* the manifest digest of a catalog an earlier run rebuilt and pushed
RebuiltDigest == "sha256:built"

\* the digest file an earlier rebuild wrote next to the catalog it pushed
ReadDigestFile(cacheSet, srcImage) ==
    IF InCache(cacheSet, srcImage) THEN ReadOk(RebuiltDigest) ELSE NoSuchFile

\* manifest.GetDigest of a reference of the cache registry
GetDigest(cacheSet, srcImage) ==
    IF InCache(cacheSet, srcImage) THEN ReadOk(RebuiltDigest) ELSE ManifestUnknown

\* the CatalogFilterResult Collect stores for a catalog whose digest was
\* read, over a cache and a working directory an earlier run left
CatalogFilterResult(o, cacheSet, op) ==
    CatalogFilterResultOf(o, op,
        ReadDigestFile(cacheSet, cachedCatalog(o, op, digestOfFilter(op))),
        GetDigest(cacheSet, cachedCatalog(o, op, digestOfFilter(op))),
        op.Related)

\* the RelatedImage Collect adds for the catalog itself
CatalogRelatedImage(op, rebuiltTag) ==
    LET imgSpec == ParseRef(op.Catalog)
        isOci == imgSpec.Transport = ociProtocol
    IN [Name |-> IF op.TargetCatalog # <<>> THEN op.TargetCatalog
                 ELSE PathBase(imgSpec.Reference),
        Image |-> IF isOci THEN <<ociProtocol>> \o FilepathAbs(imgSpec.Reference)
                  ELSE op.Catalog,
        Type |-> TypeOperatorCatalog,
        TargetTag |-> IF op.TargetTag # <<>> THEN op.TargetTag
                      ELSE IF isOci THEN <<"latest">> ELSE <<>>,
        TargetCatalog |-> op.TargetCatalog,
        RebuiltTag |-> rebuiltTag]

\* a RelatedImage read out of a catalog
BundleRelatedImage(image) ==
    [Name |-> <<>>, Image |-> image, Type |-> TypeOperatorRelatedImage,
     TargetTag |-> <<>>, TargetCatalog |-> <<>>, RebuiltTag |-> <<>>]

-----------------------------------------------------------------------------
(* The additional-images collector                                         *)

CollectErr == [ok |-> FALSE, AllImages |-> <<>>]

\* the temporary source and destination computed for one additional image
AdditionalTmpRefs(o, imgSpec) ==
    LET digestTag == imgSpec.Algorithm \o <<"-">> \o imgSpec.Digest
        comp      == IF imgSpec.Transport = dockerProtocol
                     THEN imgSpec.PathComponent
                     ELSE TrimPrefix(imgSpec.PathComponent, "/")
        cachePath == JoinSlash(o.LocalStorageFQDN, comp)
        destPath  == JoinSlash(o.Destination, comp)
    IN IF IsMirrorToDisk(o) \/ IsMirrorToMirror(o)
       THEN IF imgSpec.Transport = dockerProtocol
            THEN CASE IsImageByDigestOnly(imgSpec) ->
                        [src |-> imgSpec.ReferenceWithTransport,
                         dest |-> cachePath \o <<":">> \o digestTag]
                   [] IsImageByTagAndDigest(imgSpec) ->
                        [src |-> JoinSlash(imgSpec.Domain, imgSpec.PathComponent)
                                    \o <<"@">> \o imgSpec.Algorithm \o <<":">> \o imgSpec.Digest,
                         dest |-> cachePath \o <<":">> \o imgSpec.Tag]
                   [] OTHER ->
                        [src |-> imgSpec.ReferenceWithTransport,
                         dest |-> cachePath \o <<":">> \o imgSpec.Tag]
            ELSE [src |-> imgSpec.ReferenceWithTransport,
                  dest |-> cachePath \o <<":", "latest">>]
       ELSE IF IsDiskToMirror(o)
       THEN IF imgSpec.Transport = dockerProtocol
            THEN CASE IsImageByDigestOnly(imgSpec) ->
                        [src |-> cachePath \o <<":">> \o digestTag,
                         dest |-> destPath \o <<":">> \o digestTag]
                   [] OTHER ->
                        [src |-> cachePath \o <<":">> \o imgSpec.Tag,
                         dest |-> destPath \o <<":">> \o imgSpec.Tag]
            ELSE [src |-> cachePath \o <<":", "latest">>,
                  dest |-> destPath \o <<":", "latest">>]
       ELSE [src |-> <<>>, dest |-> <<>>]

\* one iteration of the loop of CollectAdditional.Collect; acc = [ok, AllImages]
CollectAdditionalStep(o, acc, name) ==
    IF ~acc.ok THEN acc
    ELSE LET imgSpec == ParseRef(name) IN
    IF ~imgSpec.ok THEN acc
    ELSE
    LET tmp == AdditionalTmpRefs(o, imgSpec)
        srcSpec == ParseRef(tmp.src)
        destSpec == ParseRef(tmp.dest)
    IN IF tmp.src = <<>> \/ tmp.dest = <<>> THEN CollectErr
       ELSE IF ~srcSpec.ok \/ ~destSpec.ok THEN CollectErr
       ELSE [acc EXCEPT !.AllImages =
                Append(@, CopyImageSchema(srcSpec.ReferenceWithTransport,
                                          destSpec.ReferenceWithTransport,
                                          name, TypeGeneric, <<>>))]

RECURSIVE CollectAdditionalLoop(_, _, _, _)
CollectAdditionalLoop(o, names, i, acc) ==
    IF i > Len(names) THEN acc
    ELSE CollectAdditionalLoop(o, names, i + 1, CollectAdditionalStep(o, acc, names[i]))

CollectAdditional(o, names) ==
    CollectAdditionalLoop(o, names, 1, [ok |-> TRUE, AllImages |-> <<>>])

-----------------------------------------------------------------------------
(* The release and the helm collector's planning of copies                 *)
(* A tag is cut by characters: the lexemes of a string are joined, and the *)
(* cut string is one lexeme.                                               *)

TypeOCPRelease == "ocpRelease"
TypeOCPReleaseContent == "ocpReleaseContent"
TypeCincinnatiGraph == "cincinnatiGraph"
TypeHelmImage == "helmImage"

releaseImagePathComponents == <<"openshift", "/", "release-images">>
releaseComponentPathComponents == <<"openshift", "/", "release">>

\* len(tag)
StrLen(s) == Len(Flatten(s))

\* tag[:n]
Slice(s, n) == << SubSeq(Flatten(s), 1, n) >>

\* the tag of a digest-only image: cut when it is longer than 128
digestTagOf(imgSpec) ==
    LET tag == imgSpec.Algorithm \o <<"-">> \o imgSpec.Digest
    IN IF StrLen(tag) > 128 THEN Slice(tag, 127) ELSE tag

preparePathComponents(imgSpec, imgType, imgName) ==
    CASE imgType = TypeOCPRelease -> releaseImagePathComponents
      [] imgType = TypeCincinnatiGraph -> imgSpec.PathComponent
      [] imgType = TypeOCPReleaseContent /\ imgName # <<>> -> releaseComponentPathComponents
      [] IsImageByDigestOnly(imgSpec) -> imgSpec.PathComponent
      [] OTHER -> <<>>

prepareTag(imgSpec, imgType, releaseTag, imgName) ==
    CASE imgType = TypeOCPRelease \/ imgType = TypeCincinnatiGraph ->
            IF imgSpec.Tag = <<>> THEN releaseTag ELSE imgSpec.Tag
      [] imgType = TypeOCPReleaseContent /\ imgName # <<>> -> releaseTag \o <<"-">> \o imgName
      [] IsImageByDigestOnly(imgSpec) -> digestTagOf(imgSpec)
      [] OTHER -> imgSpec.Tag

\* a planner that returned an error: the list is nil
BatchErr == [ok |-> FALSE, result |-> <<>>]

\* one iteration of the loop of the release collector's prepareM2DCopyBatch;
\* acc = [ok, result]
releasePrepareM2DCopyStep(o, releaseTag, acc, img, imgSpec) ==
    IF ~acc.ok THEN acc
    ELSE IF ~imgSpec.ok THEN BatchErr
    ELSE [acc EXCEPT !.result = Append(@,
            CopyImageSchema(imgSpec.ReferenceWithTransport,
                <<dockerProtocol>> \o JoinSlash(o.LocalStorageFQDN,
                    preparePathComponents(imgSpec, img.Type, img.Name) \o <<":">>
                        \o prepareTag(imgSpec, img.Type, releaseTag, img.Name)),
                img.Image, img.Type, <<>>))]

RECURSIVE releasePrepareM2DCopyLoop(_, _, _, _, _)
releasePrepareM2DCopyLoop(o, images, releaseTag, i, acc) ==
    IF i > Len(images) THEN acc
    ELSE releasePrepareM2DCopyLoop(o, images, releaseTag, i + 1,
            releasePrepareM2DCopyStep(o, releaseTag, acc, images[i], ParseRef(images[i].Image)))

releasePrepareM2DCopyBatch(o, images, releaseTag) ==
    releasePrepareM2DCopyLoop(o, images, releaseTag, 1, [ok |-> TRUE, result |-> <<>>])

\* one iteration of the loop of the release collector's prepareD2MCopyBatch
releasePrepareD2MCopyStep(o, releaseTag, acc, img, imgSpec) ==
    IF ~acc.ok THEN acc
    ELSE IF ~imgSpec.ok THEN BatchErr
    ELSE [acc EXCEPT !.result = Append(@,
            CopyImageSchema(
                <<dockerProtocol>> \o JoinSlash(o.LocalStorageFQDN,
                    preparePathComponents(imgSpec, img.Type, img.Name) \o <<":">>
                        \o prepareTag(imgSpec, img.Type, releaseTag, img.Name)),
                JoinSlash(o.Destination,
                    preparePathComponents(imgSpec, img.Type, img.Name) \o <<":">>
                        \o prepareTag(imgSpec, img.Type, releaseTag, img.Name)),
                img.Image, img.Type, <<>>))]

RECURSIVE releasePrepareD2MCopyLoop(_, _, _, _, _)
releasePrepareD2MCopyLoop(o, images, releaseTag, i, acc) ==
    IF i > Len(images) THEN acc
    ELSE releasePrepareD2MCopyLoop(o, images, releaseTag, i + 1,
            releasePrepareD2MCopyStep(o, releaseTag, acc, images[i], ParseRef(images[i].Image)))

releasePrepareD2MCopyBatch(o, images, releaseTag) ==
    releasePrepareD2MCopyLoop(o, images, releaseTag, 1, [ok |-> TRUE, result |-> <<>>])

\* the helm collector's destinationRegistry
helmDestinationRegistry(o) ==
    IF IsDiskToMirror(o) \/ IsMirrorToMirror(o)
    THEN TrimPrefix(o.Destination, dockerProtocol)
    ELSE o.LocalStorageFQDN

\* the tag the helm planners give an image
helmTag(imgSpec) ==
    IF IsImageByDigestOnly(imgSpec) THEN digestTagOf(imgSpec) ELSE imgSpec.Tag

\* one iteration of the loop of the helm collector's prepareM2DCopyBatch
helmPrepareM2DCopyStep(o, acc, img, imgSpec) ==
    IF ~acc.ok THEN acc
    ELSE IF ~imgSpec.ok THEN BatchErr
    ELSE [acc EXCEPT !.result = Append(@,
            CopyImageSchema(imgSpec.ReferenceWithTransport,
                <<dockerProtocol>> \o JoinSlash(helmDestinationRegistry(o),
                    imgSpec.PathComponent \o <<":">> \o helmTag(imgSpec)),
                img.Image, img.Type, <<>>))]

RECURSIVE helmPrepareM2DCopyLoop(_, _, _, _)
helmPrepareM2DCopyLoop(o, images, i, acc) ==
    IF i > Len(images) THEN acc
    ELSE helmPrepareM2DCopyLoop(o, images, i + 1,
            helmPrepareM2DCopyStep(o, acc, images[i], ParseRef(images[i].Image)))

helmPrepareM2DCopyBatch(o, images) ==
    helmPrepareM2DCopyLoop(o, images, 1, [ok |-> TRUE, result |-> <<>>])

\* one iteration of the loop of the helm collector's prepareD2MCopyBatch
\* (WithV1Tags is not set)
helmPrepareD2MCopyStep(o, acc, img, imgSpec) ==
    IF ~acc.ok THEN acc
    ELSE IF ~imgSpec.ok THEN BatchErr
    ELSE [acc EXCEPT !.result = Append(@,
            CopyImageSchema(
                <<dockerProtocol>> \o JoinSlash(o.LocalStorageFQDN, imgSpec.PathComponent)
                    \o <<":">> \o helmTag(imgSpec),
                JoinSlash(o.Destination, imgSpec.PathComponent)
                    \o <<":">> \o helmTag(imgSpec),
                img.Image, img.Type, <<>>))]

RECURSIVE helmPrepareD2MCopyLoop(_, _, _, _)
helmPrepareD2MCopyLoop(o, images, i, acc) ==
    IF i > Len(images) THEN acc
    ELSE helmPrepareD2MCopyLoop(o, images, i + 1,
            helmPrepareD2MCopyStep(o, acc, images[i], ParseRef(images[i].Image)))

helmPrepareD2MCopyBatch(o, images) ==
    helmPrepareD2MCopyLoop(o, images, 1, [ok |-> TRUE, result |-> <<>>])

-----------------------------------------------------------------------------
(* The merge of the collectors' results                                    *)

RECURSIVE ConcatAll(_, _)
ConcatAll(cs, i) == IF i > Len(cs) THEN <<>> ELSE cs[i] \o ConcatAll(cs, i + 1)

\* getUpdatedCopiedImages: the collectors' AllImages appended in collector order
getUpdatedCopiedImages(cs) == ConcatAll(cs, 1)

-----------------------------------------------------------------------------
(* The history store: files .history-<RFC3339 time> holding blob digests   *)
(* Errors are strings, "" is nil. Time is counted in ticks; a file name    *)
(* carries whole seconds. The directory is a function from the time in a   *)
(* file's name to the digests in the file.                                 *)

TicksPerSecond == 2

EmptyHistoryError == "EmptyHistoryError"

\* a wrap that hands a nil error through
ErrorfWNilStaysNil(err) == err

\* fmt.Errorf("%w", err): the result is an error value whatever err is
ErrorfW(err) == IF err = "" THEN "%!w(<nil>)" ELSE err

\* time.Format(time.RFC3339) keeps whole seconds; time.Parse reads them back
FormatRFC3339(t) == t \div TicksPerSecond
ParseRFC3339(name) == name * TicksPerSecond

newFileName(now) == FormatRFC3339(now)

\* returns [time, err]; the parsed time is returned with the wrapped err
getFileDate(name) == [time |-> ParseRFC3339(name), err |-> ErrorfW("")]

NoFile == -1

\* returns [file, err]: the latest file, or the latest before the cutoff
\* (before = 0 is the zero time: no cutoff)
getHistoryFile(dir, before) ==
    LET files == DOMAIN dir
        failing == { f \in files : getFileDate(f).err # "" }
        eligible == { f \in files : /\ getFileDate(f).time > 0
                                    /\ before # 0 => getFileDate(f).time < before }
    IN IF failing # {}
       THEN [file |-> NoFile, err |-> ErrorfW(getFileDate(CHOOSE f \in failing : TRUE).err)]
       ELSE IF eligible = {}
       THEN [file |-> NoFile, err |-> EmptyHistoryError]
       ELSE [file |-> CHOOSE f \in eligible : \A g \in eligible : g <= f,
             err |-> ErrorfW("")]

\* returns [blobs, err]; blobs is the empty map with EmptyHistoryError and
\* nil (read as empty) with any other error
HistoryRead(dir, before) ==
    LET h == getHistoryFile(dir, before)
    IN IF h.err = EmptyHistoryError THEN [blobs |-> {}, err |-> h.err]
       ELSE IF h.err # "" THEN [blobs |-> {}, err |-> ErrorfW(h.err)]
       ELSE [blobs |-> dir[h.file], err |-> ""]

\* OSFileCreator.Create: os.Create makes or truncates the file; returns [dir, err]
OSFileCreatorCreate(dir, filename) ==
    [dir |-> (filename :> {}) @@ dir, err |-> ErrorfW("")]

\* returns [dir, blobs, err]
HistoryAppend(dir, before, now, blobsToAppend) ==
    LET filename == newFileName(now)
        r == HistoryRead(dir, before)
        historyBlobs == r.blobs \cup blobsToAppend
        created == OSFileCreatorCreate(dir, filename)
    IN IF r.err # "" /\ r.err # EmptyHistoryError
       THEN [dir |-> dir, blobs |-> {}, err |-> ErrorfW(r.err)]
       ELSE IF created.err # ""
       THEN [dir |-> created.dir, blobs |-> historyBlobs, err |-> ErrorfW(created.err)]
       ELSE [dir |-> (filename :> historyBlobs) @@ created.dir, blobs |-> historyBlobs,
             err |-> ErrorfW("")]

-----------------------------------------------------------------------------
(* The archive builder                                                     *)

DestOne == <<dockerProtocol, "localhost:55000", "/", "org", "/", "one", ":", "v1">>
DestTwo == <<dockerProtocol, "localhost:55000", "/", "org", "/", "two", ":", "v1">>
DestThree == <<dockerProtocol, "localhost:55000", "/", "org", "/", "three", ":", "v1">>

\* the blobs the cache holds for an image
GatherBlobs(dest) ==
    CASE dest = DestOne -> {"sha256:a", "sha256:b"}
      [] dest = DestTwo -> {"sha256:a", "sha256:b", "sha256:c", "sha256:d"}
      [] dest = DestThree -> {"sha256:c"}
      [] OTHER -> {"sha256:e"}

AllBlobs == {"sha256:a", "sha256:b", "sha256:c", "sha256:d", "sha256:e"}

\* the blobs of one image that are neither in the history nor already added
addBlobsDiff(collectedBlobs, historyBlobs, alreadyAddedBlobs) ==
    { hash \in collectedBlobs : hash \notin historyBlobs /\ hash \notin alreadyAddedBlobs }

\* acc = [allAddedBlobs, tar]: tar counts how often a blob was written
RECURSIVE addImagesDiffLoop(_, _, _, _)
addImagesDiffLoop(images, historyBlobs, i, acc) ==
    IF i > Len(images) THEN acc
    ELSE LET addedBlobs == addBlobsDiff(GatherBlobs(images[i].Destination), historyBlobs,
                                        acc.allAddedBlobs)
         IN addImagesDiffLoop(images, historyBlobs, i + 1,
                [allAddedBlobs |-> acc.allAddedBlobs \cup addedBlobs,
                 tar |-> [b \in AllBlobs |-> acc.tar[b] + IF b \in addedBlobs THEN 1 ELSE 0]])

addImagesDiff(images, historyBlobs) ==
    addImagesDiffLoop(images, historyBlobs, 1,
                      [allAddedBlobs |-> {}, tar |-> [b \in AllBlobs |-> 0]])

\* returns [dir, tar, added, err]: the history directory afterwards, the
\* blobs written to the archive, the set handed to Append, the error
BuildArchive(dir, before, now, collectedImages) ==
    LET blobsInHistory == HistoryRead(dir, before)
        diff == addImagesDiff(collectedImages, blobsInHistory.blobs)
        appended == HistoryAppend(dir, before, now, diff.allAddedBlobs)
    IN IF blobsInHistory.err # "" /\ blobsInHistory.err # EmptyHistoryError
       THEN [dir |-> dir, tar |-> [b \in AllBlobs |-> 0], added |-> {},
             err |-> "unable to read history metadata from working-dir"]
       ELSE [dir |-> appended.dir, tar |-> diff.tar, added |-> diff.allAddedBlobs,
             err |-> IF appended.err # "" THEN "unable to update history metadata" ELSE ""]

-----------------------------------------------------------------------------
(* Options after construction and the command lines of the model           *)

\* the options Execute builds before any flag is read
BaseOptions ==
    [ConfigPath |-> <<>>, From |-> <<>>, Workspace |-> <<>>, DryRun |-> FALSE,
     SinceString |-> <<>>, MaxNestedPaths |-> 0, Mode |-> "", WorkingDir |-> <<>>,
     Destination |-> <<>>, OriginalDestination |-> <<>>, DestinationRegistry |-> <<>>,
     Function |-> "", LocalStorageFQDN |-> LocalStorageFQDN]

FlagsOf(cfgPath, from, workspace, dry, since, nested) ==
    [BaseOptions EXCEPT !.ConfigPath = cfgPath, !.From = from, !.Workspace = workspace,
                        !.DryRun = dry, !.SinceString = since, !.MaxNestedPaths = nested]

ConfigFlag == <<"isc.yaml">>
FileDest == <<fileProtocol, "out">>
DockerDest == <<dockerProtocol, "reg.local">>
FromDir == <<fileProtocol, "in">>
WorkspaceDir == <<fileProtocol, "ws">>

\* a plain command line of each mode: [opts, args]
ModeCommandLine(mode) ==
    CASE mode = mirrorToDisk ->
            [opts |-> FlagsOf(ConfigFlag, <<>>, <<>>, FALSE, <<>>, 0), args |-> <<FileDest>>]
      [] mode = mirrorToMirror ->
            [opts |-> FlagsOf(ConfigFlag, <<>>, WorkspaceDir, FALSE, <<>>, 0), args |-> <<DockerDest>>]
      [] OTHER ->
            [opts |-> FlagsOf(ConfigFlag, FromDir, <<>>, FALSE, <<>>, 0), args |-> <<DockerDest>>]

Modes == {mirrorToDisk, mirrorToMirror, diskToMirror}

-----------------------------------------------------------------------------
(* States of the parts a specification leaves idle                         *)

EmptySchema == [AllImages |-> <<>>, CatalogToFBCMap |-> <<>>]
EmptyConfig == [Operators |-> <<>>, AdditionalImages |-> <<>>, BlockedImages |-> <<>>]

FlowIdle ==
    /\ impl = "none" /\ args = <<>> /\ Options = BaseOptions /\ config = EmptyConfig
    /\ portBound = FALSE /\ pc = "idle" /\ ret = "none" /\ reg = "notStarted"
    /\ copiedImages = EmptySchema /\ cache = {} /\ dispatched = <<>> /\ events = <<>>

\* no planner was applied yet
NoResult == [done |-> FALSE, ok |-> TRUE, result |-> <<>>]

PlanIdle ==
    /\ relatedImgs = <<>> /\ additionalImgs = <<>> /\ planMode = "" 
    /\ planned = [pc |-> "idle", cs |-> <<>>, all |-> <<>>]
    /\ collector = "none" /\ collected = NoResult

EmptyTar == [b \in AllBlobs |-> 0]

NoBuild ==
    [count |-> 0, since |-> 0, images |-> <<>>, dirBefore |-> <<>>, added |-> {}, err |-> ""]

ArchIdle ==
    /\ historyDir = <<>> /\ clock = TicksPerSecond /\ archive = EmptyTar /\ lastBuild = NoBuild

NoDelete ==
    [items |-> <<>>, DeleteDestination |-> <<>>, ForceCacheDelete |-> FALSE,
     DeleteGenerate |-> FALSE, done |-> FALSE, err |-> "", worker |-> <<>>, deleted |-> {}]

NoUnarchive == [entries |-> <<>>, disk |-> <<>>, before |-> <<>>, written |-> {}, done |-> FALSE]

DeleteIdle == del = NoDelete
UnarchiveIdle == unarch = NoUnarchive
NoAppend == [count |-> 0, before |-> 0, blobsToAppend |-> {}, dirBefore |-> <<>>, err |-> ""]

AppendIdle == lastAppend = NoAppend
NoFingerprints == [a |-> <<>>, b |-> <<>>, ofA |-> <<>>, ofB |-> <<>>, done |-> FALSE]

FilterIdle == fingerprints = NoFingerprints
NoFastPath ==
    [mode |-> "", op |-> <<>>, readFile |-> <<>>, getDigest |-> <<>>, onDisk |-> <<>>,
     done |-> FALSE, filtered |-> FALSE, related |-> <<>>, fbc |-> <<>>]

FastPathIdle == fastPath = NoFastPath
NoPlannings == [mode |-> "", images |-> <<>>, runs |-> <<>>]

TwiceIdle == twice = NoPlannings
NoRun == [of |-> 0, invoked |-> <<>>, cs |-> <<>>, err |-> FALSE]

NoManagers == [mode |-> "", managers |-> {}, collectors |-> <<>>, last |-> NoRun]

ManagerIdle == mgr = NoManagers
CallIdle == TwiceIdle /\ ManagerIdle
ToolIdle ==
    DeleteIdle /\ UnarchiveIdle /\ AppendIdle /\ FilterIdle /\ FastPathIdle /\ CallIdle

-----------------------------------------------------------------------------
(* The planning of copies, from related images to the final copy list      *)

MaxRelated == 2
MaxAdditional == 2

ImgByTag == <<"quay.io", "/", "org", "/", "img", ":", "v1">>
ImgByDigest == <<"quay.io", "/", "org", "/", "img", "@", "sha256", ":", "abc">>
ImgByTagAndDigest == <<"quay.io", "/", "org", "/", "tool", ":", "v3", "@", "sha256", ":", "def">>
ImgUnparsable == <<"1.2.3">>

NoTargets(catalog, full) ==
    [Catalog |-> catalog, TargetTag |-> <<>>, TargetCatalog |-> <<>>, Full |-> full,
     Packages |-> <<>>,
     Related |-> <<>>]

\* catalog entries of a configuration: filtered, full with a target tag,
\* filtered from an OCI layout on disk, filtered with a target catalog
PlanCatalogs ==
    { NoTargets(CatalogByTag, FALSE),
      [NoTargets(CatalogByTag, TRUE) EXCEPT !.TargetTag = <<"tt">>],
      NoTargets(CatalogOCI, FALSE),
      [NoTargets(CatalogOther, FALSE) EXCEPT !.TargetCatalog = <<"tc">>] }

\* what the related-images map can hold: the catalogs' own entries, as
\* Collect builds them on a first run, and images read out of the catalogs
RelatedCandidates ==
    { CatalogRelatedImage(op, CatalogFilterResult(BaseOptions, {}, op).rebuiltTag) :
        op \in PlanCatalogs }
    \cup { BundleRelatedImage(i) : i \in {ImgByTag, ImgByDigest, ImgByTagAndDigest, <<>>, ImgUnparsable} }

AdditionalCandidates == { <<dockerProtocol>> \o ImgByTag, ImgByDigest, ImgUnparsable }

SeqsUpTo(S, n) == UNION { [1..k -> S] : k \in 0..n }

PlanOptions(mode) ==
    LET c == ModeCommandLine(mode) IN CheckArgs(c.args, c.opts).opts

InitPlan ==
    /\ FlowIdle /\ ArchIdle /\ ToolIdle
    /\ planMode \in Modes
    /\ relatedImgs \in SeqsUpTo(RelatedCandidates, MaxRelated)
    /\ additionalImgs \in SeqsUpTo(AdditionalCandidates, MaxAdditional)
    /\ planned = [pc |-> "collect", cs |-> <<>>, all |-> <<>>]
    /\ collector = "none" /\ collected = NoResult

\* CollectAllImages over the additional and the operator collector (the release
\* and helm collectors have nothing configured and return empty lists)
PlanCollectAllImages ==
    /\ planned.pc = "collect"
    /\ LET o == PlanOptions(planMode)
           add == CollectAdditional(o, additionalImgs)
       IN planned' = IF add.ok
                     THEN [pc |-> "merge",
                           cs |-> <<add.AllImages, OperatorAllImages(o, relatedImgs)>>,
                           all |-> <<>>]
                     ELSE [pc |-> "failed", cs |-> <<>>, all |-> <<>>]
    /\ UNCHANGED <<relatedImgs, additionalImgs, planMode, collector, collected, flowVars, archVars, toolVars>>

PlanGetUpdatedCopiedImages ==
    /\ planned.pc = "merge"
    /\ planned' = [planned EXCEPT !.pc = "done", !.all = getUpdatedCopiedImages(planned.cs)]
    /\ UNCHANGED <<relatedImgs, additionalImgs, planMode, collector, collected, flowVars, archVars, toolVars>>

NextPlan == PlanCollectAllImages \/ PlanGetUpdatedCopiedImages

SpecPlan == InitPlan /\ [][NextPlan]_vars

\* the entries of the final copy list with a given Origin
CopiesOf(all, origin) == { i \in 1..Len(all) : all[i].Origin = origin }

\* a reference with a transport, a path, and for a registry a tag or a digest
WellFormedRef(s) ==
    /\ Len(s) > 0
    /\ s[1] \in Transports
    /\ ParseRef(s).ok
    /\ ParseRef(s).PathComponent # <<>>

\* C5: in the final copy list every Origin has at most one CopyImage per
\* destination and a single CopyImage, except that a mirror-to-mirror operator
\* catalog has exactly two, with different destinations.
C5_OneCopyPerOrigin ==
    planned.pc = "done" =>
        \A i \in 1..Len(planned.all) :
            LET same == CopiesOf(planned.all, planned.all[i].Origin)
            IN /\ \A j \in same : j # i => planned.all[j].Destination # planned.all[i].Destination
               /\ IF planMode = mirrorToMirror /\ planned.all[i].Type = TypeOperatorCatalog
                  THEN Cardinality(same) = 2
                  ELSE Cardinality(same) = 1

\* C6: every CopyImage of the final list has a well-formed Source and a
\* well-formed Destination: transport, non-empty path, tag or digest suffix
\* behind a single separator.
C6_ReferencesWellFormed ==
    planned.pc = "done" =>
        \A i \in 1..Len(planned.all) :
            /\ WellFormedRef(planned.all[i].Source)
            /\ WellFormedRef(planned.all[i].Destination)

-----------------------------------------------------------------------------
(* The fingerprint of the filter of a catalog entry                        *)

MaxPackages == 2
MaxChannels == 2

PackageNames == {"op1", "op2"}
ChannelNames == {"stable", "fast"}

\* a list without repetition
NoRepeat(list) == \A i, j \in 1..Len(list) : list[i] = list[j] => i = j

Range(list) == { list[i] : i \in 1..Len(list) }

\* the packages a catalog entry can select, each with its channels
IncludePackages ==
    { [Name |-> n, Channels |-> chs] :
        n \in PackageNames,
        chs \in { l \in SeqsUpTo(ChannelNames, MaxChannels) : NoRepeat(l) } }

PackageLists ==
    { l \in SeqsUpTo(IncludePackages, MaxPackages) :
        \A i, j \in 1..Len(l) : l[i].Name = l[j].Name => i = j }

\* catalog entries of a configuration that select packages
FilterEntries ==
    { [NoTargets(CatalogByTag, full) EXCEPT !.Packages = pkgs, !.TargetTag = tt] :
        full \in BOOLEAN, pkgs \in PackageLists, tt \in {<<>>, <<"tt">>} }

\* what an entry selects: its catalog, its flag, and its packages with their
\* channels, whatever the order they are listed in
SelectionOf(c) ==
    [Catalog |-> c.Catalog, Full |-> c.Full,
     Packages |-> { [Name |-> c.Packages[i].Name, Channels |-> Range(c.Packages[i].Channels)] :
                      i \in 1..Len(c.Packages) }]

InitFilter ==
    /\ FlowIdle /\ PlanIdle /\ ArchIdle /\ DeleteIdle /\ UnarchiveIdle /\ AppendIdle /\ FastPathIdle /\ CallIdle
    /\ \E a \in FilterEntries, b \in FilterEntries :
          /\ SelectionOf(a) = SelectionOf(b)
          /\ fingerprints = [NoFingerprints EXCEPT !.a = a, !.b = b]

\* Collect computes the fingerprint of each entry
DigestOfFilterCall ==
    /\ ~fingerprints.done
    /\ fingerprints' = [fingerprints EXCEPT !.ofA = digestOfFilter(fingerprints.a),
                                            !.ofB = digestOfFilter(fingerprints.b),
                                            !.done = TRUE]
    /\ UNCHANGED <<del, unarch, lastAppend, fastPath, callVars, flowVars, planVars, archVars>>

NextFilter == DigestOfFilterCall

SpecFilter == InitFilter /\ [][NextFilter]_vars

\* C20: two catalog entries that select the same packages and channels, listed
\* in a different order, have the same filter fingerprint.
C20_FingerprintIgnoresOrder ==
    fingerprints.done => fingerprints.ofA = fingerprints.ofB

-----------------------------------------------------------------------------
(* The planner of each collector, applied to a list of images              *)

MaxImages == 2

\* a digest of 193 characters: with "sha256-" a tag of 200 characters
Hex64 == "0123456789abcdef0123456789abcdef0123456789abcdef0123456789abcdef"
LongHex == Hex64 \o Hex64 \o Hex64 \o "0"
ImgByLongDigest == <<"quay.io", "/", "org", "/", "big", "@", "sha256", ":", LongHex>>

releaseTag == <<"4.15.0">>
ReleaseImg == <<"quay.io", "/", "ocp", "/", "release", ":", "4.15.0">>

RelatedImage(name, image, type) ==
    [Name |-> name, Image |-> image, Type |-> type,
     TargetTag |-> <<>>, TargetCatalog |-> <<>>, RebuiltTag |-> <<>>]

\* catalogs of the operator planners: those of PlanCatalogs, and a filtered
\* catalog with a target tag
CollectCatalogs ==
    PlanCatalogs \cup { [NoTargets(CatalogOther, FALSE) EXCEPT !.TargetTag = <<"tt">>] }

OperatorInputs ==
    { CatalogRelatedImage(op, CatalogFilterResult(BaseOptions, {}, op).rebuiltTag) :
        op \in CollectCatalogs }
    \cup { BundleRelatedImage(i) :
             i \in {ImgByTag, ImgByDigest, ImgByTagAndDigest, ImgByLongDigest, <<>>, ImgUnparsable} }

\* what GetReleaseSchema reads out of a release, and the release image itself
ReleaseInputs ==
    { RelatedImage(ReleaseImg, ReleaseImg, TypeOCPRelease),
      RelatedImage(<<"cli">>, ImgByDigest, TypeOCPReleaseContent),
      RelatedImage(<<>>, ImgByLongDigest, TypeOCPReleaseContent),
      RelatedImage(<<"tools">>, ImgByTagAndDigest, TypeOCPReleaseContent),
      RelatedImage(<<"etcd">>, <<>>, TypeOCPReleaseContent),
      RelatedImage(<<"oauth">>, ImgUnparsable, TypeOCPReleaseContent) }

\* what findImages reads out of the templates of a chart: fields, never empty
HelmInputs ==
    { RelatedImage(<<>>, i, TypeHelmImage) :
        i \in {ImgByTag, ImgByDigest, ImgByTagAndDigest, ImgByLongDigest, ImgUnparsable} }

AdditionalInputs ==
    { <<dockerProtocol>> \o ImgByTag, ImgByDigest, ImgByTagAndDigest, ImgByLongDigest,
      <<>>, ImgUnparsable }

Collectors == {"release", "operator", "additional", "helm"}

\* the planner of the release collector for the mode
ReleasePlanner(o, images) ==
    IF IsDiskToMirror(o) THEN releasePrepareD2MCopyBatch(o, images, releaseTag)
    ELSE releasePrepareM2DCopyBatch(o, images, releaseTag)

\* the planner of the helm collector for the mode
HelmPlanner(o, images) ==
    IF IsDiskToMirror(o) THEN helmPrepareD2MCopyBatch(o, images)
    ELSE helmPrepareM2DCopyBatch(o, images)

\* the planner of a collector: [ok, result]
PlannerOf(c, o, images, names) ==
    CASE c = "release" -> ReleasePlanner(o, images)
      [] c = "helm" -> HelmPlanner(o, images)
      [] c = "operator" -> [ok |-> TRUE, result |-> OperatorAllImages(o, images)]
      [] OTHER -> [ok |-> CollectAdditional(o, names).ok,
                   result |-> CollectAdditional(o, names).AllImages]

InitCollect ==
    /\ FlowIdle /\ ArchIdle /\ ToolIdle
    /\ planned = [pc |-> "idle", cs |-> <<>>, all |-> <<>>]
    /\ planMode \in Modes
    /\ collector \in Collectors
    /\ collected = NoResult
    /\ \/ /\ collector = "release" /\ relatedImgs \in SeqsUpTo(ReleaseInputs, MaxImages)
          /\ additionalImgs = <<>>
       \/ /\ collector = "operator" /\ relatedImgs \in SeqsUpTo(OperatorInputs, MaxImages)
          /\ additionalImgs = <<>>
       \/ /\ collector = "helm" /\ relatedImgs \in SeqsUpTo(HelmInputs, MaxImages)
          /\ additionalImgs = <<>>
       \/ /\ collector = "additional" /\ relatedImgs = <<>>
          /\ additionalImgs \in SeqsUpTo(AdditionalInputs, MaxImages)

Planning(c) == collector = c /\ ~collected.done

Returned(r) == [done |-> TRUE, ok |-> r.ok, result |-> r.result]

ApplyReleasePlanner ==
    /\ Planning("release")
    /\ \E r \in {ReleasePlanner(PlanOptions(planMode), relatedImgs)} : collected' = Returned(r)
    /\ UNCHANGED <<relatedImgs, additionalImgs, planMode, planned, collector, flowVars, archVars, toolVars>>

ApplyOperatorPlanner ==
    /\ Planning("operator")
    /\ \E r \in {OperatorAllImages(PlanOptions(planMode), relatedImgs)} :
          collected' = [done |-> TRUE, ok |-> TRUE, result |-> r]
    /\ UNCHANGED <<relatedImgs, additionalImgs, planMode, planned, collector, flowVars, archVars, toolVars>>

ApplyHelmPlanner ==
    /\ Planning("helm")
    /\ \E r \in {HelmPlanner(PlanOptions(planMode), relatedImgs)} : collected' = Returned(r)
    /\ UNCHANGED <<relatedImgs, additionalImgs, planMode, planned, collector, flowVars, archVars, toolVars>>

ApplyCollectAdditional ==
    /\ Planning("additional")
    /\ \E r \in {CollectAdditional(PlanOptions(planMode), additionalImgs)} :
          collected' = [done |-> TRUE, ok |-> r.ok, result |-> r.AllImages]
    /\ UNCHANGED <<relatedImgs, additionalImgs, planMode, planned, collector, flowVars, archVars, toolVars>>

NextCollect ==
    ApplyReleasePlanner \/ ApplyOperatorPlanner \/ ApplyHelmPlanner \/ ApplyCollectAdditional

SpecCollect == InitCollect /\ [][NextCollect]_vars

\* an image the planners cannot plan: an empty string or an unparsable one
BadRef(ref) == ref = <<>> \/ ~ParseRef(ref).ok

GoodImages(images) == SelectSeq(images, LAMBDA img : ~BadRef(img.Image))
GoodNames(names) == SelectSeq(names, LAMBDA n : ~BadRef(n))

\* C11: whatever the collector and the mode, empty and unparsable images are
\* left out, the other images are planned as they are without them, and the
\* planner returns no error.
C11_BadImagesAreSkipped ==
    collected.done =>
        /\ collected.ok
        /\ collected.result =
              PlannerOf(collector, PlanOptions(planMode), GoodImages(relatedImgs),
                        GoodNames(additionalImgs)).result

\* the tag a reference ends with, <<>> when it has none
TagOfRef(ref) == IF ParseRef(ref).ok THEN ParseRef(ref).Tag ELSE <<>>

\* the image a copy was planned for: the first of the list with its Origin
FirstWithOrigin(images, origin) ==
    LET idx == { i \in 1..Len(images) :
                   /\ ~BadRef(images[i].Image)
                   /\ ParseRef(images[i].Image).ReferenceWithTransport = origin }
    IN images[CHOOSE i \in idx : \A j \in idx : i <= j]

\* a copy that reads from the cache registry
FromCache(c) == SubSeq(c.Source, 1, 2) = <<dockerProtocol>> \o LocalStorageFQDN

\* C17: a copy of an operator catalog with a TargetTag from the cache to the
\* destination, in disk-to-mirror and in mirror-to-mirror, has a Source tagged
\* RebuiltTag when there is one and TargetTag otherwise, and a Destination
\* tagged TargetTag.
C17_CatalogTargetTag ==
    collected.done /\ collector = "operator" /\ planMode \in {diskToMirror, mirrorToMirror} =>
        \A i \in 1..Len(collected.result) :
            LET c == collected.result[i]
                img == FirstWithOrigin(relatedImgs, c.Origin)
            IN c.Type = TypeOperatorCatalog /\ FromCache(c) /\ img.TargetTag # <<>> =>
                /\ TagOfRef(c.Source) = IF img.RebuiltTag # <<>> THEN img.RebuiltTag
                                        ELSE img.TargetTag
                /\ TagOfRef(c.Destination) = img.TargetTag

\* the first 128 characters of a string
Truncate128(str) == SubSeq(str, 1, IF Len(str) > 128 THEN 128 ELSE Len(str))

\* the i-th copy is of an image referenced by digest only that no rule for
\* catalogs, releases or named release content gives another tag
DigestTagged(i) ==
    LET c == collected.result[i]
        spec == ParseRef(c.Origin)
    IN /\ spec.ok
       /\ IsImageByDigestOnly(spec)
       /\ c.Type \notin {TypeOperatorCatalog, TypeOCPRelease, TypeCincinnatiGraph}
       /\ ~(collector = "release" /\ relatedImgs[i].Name # <<>>)

\* C18: in every collector and mode the destination tag of an image
\* referenced by digest only is <algorithm>-<hex-digest> cut to its first 128
\* characters: it is never longer than 128, and 200 characters give 128.
C18_DigestTagCutTo128 ==
    collected.done /\ collected.ok =>
        \A i \in 1..Len(collected.result) :
            DigestTagged(i) =>
                Flatten(TagOfRef(collected.result[i].Destination)) =
                    Truncate128(Flatten(ParseRef(collected.result[i].Origin).Algorithm
                                        \o <<"-">>
                                        \o ParseRef(collected.result[i].Origin).Digest))

\* the i-th copy is of an image referenced by a tag and a digest that no rule
\* for catalogs, releases or named release content gives another tag
TagAndDigestCopy(i) ==
    LET c == collected.result[i]
        spec == ParseRef(c.Origin)
    IN /\ spec.ok
       /\ IsImageByTagAndDigest(spec)
       /\ c.Type \notin {TypeOperatorCatalog, TypeOCPRelease, TypeCincinnatiGraph}
       /\ ~(collector = "release" /\ relatedImgs[i].Name # <<>>)

\* a reference by digest, without a tag
ByDigestOnly(ref, digest) ==
    ParseRef(ref).ok /\ ParseRef(ref).Digest = digest /\ ParseRef(ref).Tag = <<>>

\* a reference by tag, without a digest
ByTagOnly(ref, tag) ==
    ParseRef(ref).ok /\ ParseRef(ref).Tag = tag /\ ParseRef(ref).Digest = <<>>

\* C19: in mirror-to-disk and mirror-to-mirror the copy of an image
\* referenced by a tag and a digest has a Source that references the image by
\* its digest and a Destination that carries its tag and no digest.
C19_PullByDigestPushByTag ==
    collected.done /\ collected.ok /\ planMode \in {mirrorToDisk, mirrorToMirror} =>
        \A i \in 1..Len(collected.result) :
            TagAndDigestCopy(i) =>
                /\ ByDigestOnly(collected.result[i].Source,
                                ParseRef(collected.result[i].Origin).Digest)
                /\ ByTagOnly(collected.result[i].Destination,
                             ParseRef(collected.result[i].Origin).Tag)

-----------------------------------------------------------------------------
(* The deletion of images from the destination registry                    *)

MaxItems == 2

\* ImageSpec.Name: the reference without transport, tag and digest
ImageSpecName(spec) == JoinSlash(spec.Domain, spec.PathComponent)

\* strings.Split(s, sep): s cut at every occurrence of the lexeme sep
RECURSIVE StringsSplit(_, _)
StringsSplit(s, sep) ==
    LET i == IndexOf(s, sep)
    IN IF i = 0 THEN <<s>>
       ELSE <<SubSeq(s, 1, i - 1)>> \o StringsSplit(SubSeq(s, i + 1, Len(s)), sep)

\* strings.ReplaceAll(s, old, new)
RECURSIVE ReplaceAll(_, _, _)
ReplaceAll(s, old, new) ==
    LET i == IF old = <<>> THEN 0 ELSE IndexOfSeq(s, old, 1)
    IN IF i = 0 THEN s
       ELSE SubSeq(s, 1, i - 1) \o new
                \o ReplaceAll(SubSeq(s, i + Len(old), Len(s)), old, new)

\* the name DeleteRegistryImages assembles for an item of the delete list
assembleName(registry, img, imgSpecName) ==
    CASE img.Type = TypeOCPReleaseContent -> registry \o <<"/", "openshift", "/", "release">>
      [] img.Type = TypeOCPRelease -> registry \o <<"/", "openshift", "/", "release-images">>
      [] OTHER -> registry \o <<"/">> \o imgSpecName.PathComponent

\* the check of the assembled name against the name of the reference
deleteNameUnchecked(registry, img, imgSpecName, imgSpecRef) == TRUE

deleteNameMatches(registry, img, imgSpecName, imgSpecRef) ==
    assembleName(registry, img, imgSpecName) = ImageSpecName(imgSpecRef)

\* the CopyImageSchemas of one item: the destination, and the cache when forced
deleteCopies(o, img) ==
    << [Origin |-> img.ImageName, Destination |-> img.ImageReference, Type |-> img.Type] >>
    \o IF o.ForceCacheDelete
       THEN << [Origin |-> img.ImageName,
                Destination |-> ReplaceAll(img.ImageReference, o.DeleteDestination,
                                           <<dockerProtocol>> \o LocalStorageFQDN),
                Type |-> img.Type] >>
       ELSE <<>>

\* one iteration of the loop of DeleteRegistryImages; acc = [err, AllImages]
deleteItemStep(o, acc, img, imgSpecName, imgSpecRef, name) ==
    IF acc.err # "" THEN acc
    ELSE IF ~imgSpecName.ok \/ ~imgSpecRef.ok THEN [acc EXCEPT !.err = "parse"]
    ELSE IF Len(name) < 2 THEN [acc EXCEPT !.err = "delete destination is not well formed"]
    ELSE IF ~deleteNameMatches(name[2], img, imgSpecName, imgSpecRef)
    THEN [acc EXCEPT !.err = "delete destination does not match values found in the delete-images yaml file"]
    ELSE [acc EXCEPT !.AllImages = @ \o deleteCopies(o, img)]

RECURSIVE deleteItemLoop(_, _, _)
deleteItemLoop(o, i, acc) ==
    IF i > Len(o.items) THEN acc
    ELSE deleteItemLoop(o, i + 1,
            deleteItemStep(o, acc, o.items[i], ParseRef(o.items[i].ImageName),
                           ParseRef(o.items[i].ImageReference),
                           StringsSplit(o.DeleteDestination, dockerProtocol)))

\* returns [err, AllImages, batch]: batch says whether the worker is called
DeleteRegistryImages(o) ==
    LET r == deleteItemLoop(o, 1, [err |-> "", AllImages |-> <<>>])
    IN [err |-> r.err,
        AllImages |-> IF r.err # "" THEN <<>> ELSE r.AllImages,
        batch |-> r.err = "" /\ ~o.DeleteGenerate /\ o.DeleteDestination # <<>>]

DeleteItem(name, ref, type) == [ImageName |-> name, ImageReference |-> ref, Type |-> type]

\* items of a delete-images file written for docker://reg.local, then an item
\* of another path, of another registry, and one that does not parse
DeleteItems ==
    { DeleteItem(<<dockerProtocol>> \o ImgByTag,
                 <<dockerProtocol, "reg.local", "/", "org", "/", "img", ":", "v1">>, TypeGeneric),
      DeleteItem(<<dockerProtocol>> \o ImgByTagAndDigest,
                 <<dockerProtocol, "reg.local", "/", "org", "/", "tool", ":", "v3">>,
                 TypeOperatorRelatedImage),
      DeleteItem(<<dockerProtocol>> \o ReleaseImg,
                 <<dockerProtocol, "reg.local", "/", "openshift", "/", "release-images", ":", "4.15.0">>,
                 TypeOCPRelease),
      DeleteItem(<<dockerProtocol>> \o ImgByTag,
                 <<dockerProtocol, "reg.local", "/", "else", "/", "img", ":", "v1">>, TypeGeneric),
      DeleteItem(<<dockerProtocol>> \o ImgByTag,
                 <<dockerProtocol, "other.io", "/", "org", "/", "img", ":", "v1">>, TypeGeneric),
      DeleteItem(ImgUnparsable,
                 <<dockerProtocol, "reg.local", "/", "org", "/", "img", ":", "v1">>, TypeGeneric) }

DeleteDestinations ==
    { <<dockerProtocol, "reg.local">>, <<dockerProtocol, "other.io">>, <<"reg.local">> }

InitDelete ==
    /\ FlowIdle /\ PlanIdle /\ ArchIdle /\ UnarchiveIdle /\ AppendIdle /\ FilterIdle /\ FastPathIdle /\ CallIdle
    /\ \E items \in SeqsUpTo(DeleteItems, MaxItems), dest \in DeleteDestinations,
          force \in BOOLEAN, generate \in BOOLEAN :
        del = [NoDelete EXCEPT !.items = items, !.DeleteDestination = dest,
                               !.ForceCacheDelete = force, !.DeleteGenerate = generate]

\* DeleteRegistryImages with the batch worker it calls: the worker deletes
\* every image of the schema it is handed, or fails on some of them
DeleteRegistryImagesCall ==
    /\ ~del.done
    /\ \E r \in {DeleteRegistryImages(del)} :
         IF ~r.batch
         THEN del' = [del EXCEPT !.done = TRUE, !.err = r.err]
         ELSE \E failed \in SUBSET (1..Len(r.AllImages)) :
                del' = [del EXCEPT !.done = TRUE,
                          !.worker = r.AllImages,
                          !.deleted = { r.AllImages[i].Destination :
                                          i \in (1..Len(r.AllImages)) \ failed },
                          !.err = IF failed = {} THEN "" ELSE "worker"]
    /\ UNCHANGED <<unarch, lastAppend, fingerprints, fastPath, callVars, flowVars, planVars, archVars>>

NextDelete == DeleteRegistryImagesCall

SpecDelete == InitDelete /\ [][NextDelete]_vars

\* the planned name of an item is the path of its reference in the
\* destination registry
PlannedNameMatches(dest, item) ==
    /\ ParseRef(item.ImageName).ok
    /\ ParseRef(item.ImageReference).ok
    /\ Len(dest) = 2 /\ dest[1] = dockerProtocol
    /\ ParseRef(item.ImageReference).Domain = <<dest[2]>>
    /\ ParseRef(item.ImageReference).PathComponent =
          CASE item.Type = TypeOCPReleaseContent -> releaseComponentPathComponents
            [] item.Type = TypeOCPRelease -> releaseImagePathComponents
            [] OTHER -> ParseRef(item.ImageName).PathComponent

\* C12: when an item of the delete list fails the match of planned name and
\* destination path, DeleteRegistryImages returns an error and deletes nothing.
C12_MismatchDeletesNothing ==
    (del.done /\ \E i \in 1..Len(del.items) : ~PlannedNameMatches(del.DeleteDestination, del.items[i]))
        => del.err # "" /\ del.deleted = {} /\ del.worker = <<>>

\* a list whose first item matches and whose second does not, not a dry
\* generation: the call returned
C12_Witness ==
    /\ del.done /\ ~del.DeleteGenerate
    /\ Len(del.items) = 2
    /\ PlannedNameMatches(del.DeleteDestination, del.items[1])
    /\ ~PlannedNameMatches(del.DeleteDestination, del.items[2])

-----------------------------------------------------------------------------
(* The extraction of an archive: MirrorUnArchiver.Unarchive                *)
(* A tar entry is [Name, Typeflag, Contents]; the disk is a function from  *)
(* the path of a file to its bytes.                                        *)

MaxEntries == 2

workingDirectory == <<"working-dir">>
cacheFilePrefix == <<"docker", "/", "registry", "/", "v2">>

TypeReg == "TypeReg"
TypeDir == "TypeDir"

\* the directories NewArchiveExtractor is given
UnarchiveWorkingDir == <<"ws", "/", "working-dir">>
UnarchiveCacheDir == <<"cache">>

\* strings.Contains(s, substr) for a substr of lexemes
ContainsSeq(s, substr) == IndexOfSeq(s, substr, 1) # 0

\* filepath.Join(dir, name)
FilepathJoin(dir, name) == dir \o <<"/">> \o name

\* where Unarchive writes a regular file of the archive, <<>> when nowhere
descriptorOf(workingDir, cacheDir, name) ==
    IF ContainsSeq(name, workingDirectory)
    THEN FilepathJoin(FilepathDir(workingDir), name)
    ELSE IF ContainsSeq(name, cacheFilePrefix)
    THEN FilepathJoin(cacheDir, name)
    ELSE <<>>

\* os.OpenFile(descriptor, O_CREATE|O_RDWR) then io.Copy(f, reader): the bytes
\* are written from offset 0 and what the file held behind them stays
OpenFileCopy(disk, descriptor, contents) ==
    IF descriptor \in DOMAIN disk /\ Len(disk[descriptor]) > Len(contents)
    THEN contents \o SubSeq(disk[descriptor], Len(contents) + 1, Len(disk[descriptor]))
    ELSE contents

\* one iteration of the loop over the entries; acc = [disk, written]
unarchiveEntry(acc, header, descriptor) ==
    IF header.Typeflag # TypeReg \/ descriptor = <<>> THEN acc
    ELSE [disk |-> (descriptor :> OpenFileCopy(acc.disk, descriptor, header.Contents))
                      @@ acc.disk,
          written |-> acc.written \cup {descriptor}]

RECURSIVE unarchiveLoop(_, _, _, _, _)
unarchiveLoop(workingDir, cacheDir, entries, i, acc) ==
    IF i > Len(entries) THEN acc
    ELSE unarchiveLoop(workingDir, cacheDir, entries, i + 1,
            unarchiveEntry(acc, entries[i],
                           descriptorOf(workingDir, cacheDir, entries[i].Name)))

\* returns [disk, written]
Unarchive(workingDir, cacheDir, entries, disk) ==
    unarchiveLoop(workingDir, cacheDir, entries, 1, [disk |-> disk, written |-> {}])

TarEntry(name, flag, contents) == [Name |-> name, Typeflag |-> flag, Contents |-> contents]

\* entries of an archive: a file of the working directory, a blob and a
\* repository link of the cache, the image set configuration, a folder, and a
\* file of a repository that is called working-dir
TarEntries ==
    { TarEntry(<<"working-dir", "/", "info">>, TypeReg, <<1, 2>>),
      TarEntry(<<"docker", "/", "registry", "/", "v2", "/", "blobs", "/", "b1">>, TypeReg, <<3>>),
      TarEntry(<<"docker", "/", "registry", "/", "v2", "/", "repositories", "/",
                 "working-dir", "/", "link">>, TypeReg, <<5>>),
      TarEntry(<<"isc_2024">>, TypeReg, <<4>>),
      TarEntry(<<"backup", "/", "docker", "/", "registry", "/", "v2", "/", "x">>, TypeReg, <<6>>),
      TarEntry(<<"working-dir">>, TypeDir, <<>>) }

\* the disk before: empty, or left by an earlier extraction
DisksBefore ==
    { <<>>,
      (<<"ws", "/", "working-dir", "/", "info">> :> <<9>>),
      (<<"ws", "/", "working-dir", "/", "info">> :> <<9, 9, 9>>),
      (<<"cache", "/", "docker", "/", "registry", "/", "v2", "/", "blobs", "/", "b1">> :> <<3>>) }

InitUnarchive ==
    /\ FlowIdle /\ PlanIdle /\ ArchIdle /\ DeleteIdle /\ AppendIdle /\ FilterIdle /\ FastPathIdle /\ CallIdle
    /\ \E entries \in SeqsUpTo(TarEntries, MaxEntries), disk \in DisksBefore :
        unarch = [NoUnarchive EXCEPT !.entries = entries, !.disk = disk, !.before = disk]

UnarchiveCall ==
    /\ ~unarch.done
    /\ \E r \in {Unarchive(UnarchiveWorkingDir, UnarchiveCacheDir, unarch.entries, unarch.disk)} :
         unarch' = [unarch EXCEPT !.done = TRUE, !.disk = r.disk, !.written = r.written]
    /\ UNCHANGED <<del, lastAppend, fingerprints, fastPath, callVars, flowVars, planVars, archVars>>

NextUnarchive == UnarchiveCall

SpecUnarchive == InitUnarchive /\ [][NextUnarchive]_vars

\* a path begins with a prefix
HasPrefix(s, prefix) == Len(s) >= Len(prefix) /\ SubSeq(s, 1, Len(prefix)) = prefix

\* where an entry belongs by the start of its path, <<>> when nowhere
TargetOf(name) ==
    IF HasPrefix(name, workingDirectory \o <<"/">>)
    THEN FilepathDir(UnarchiveWorkingDir) \o <<"/">> \o name
    ELSE IF HasPrefix(name, cacheFilePrefix \o <<"/">>)
    THEN UnarchiveCacheDir \o <<"/">> \o name
    ELSE <<>>

Extractable(e) == e.Typeflag = TypeReg /\ TargetOf(e.Name) # <<>>

\* C13: after Unarchive the file at the target of every entry under
\* working-dir/ or docker/registry/v2/ has exactly the bytes of the entry,
\* whatever was there before.
C13_ExtractedBytesEqual ==
    unarch.done =>
        \A i \in 1..Len(unarch.entries) :
            Extractable(unarch.entries[i]) =>
                /\ TargetOf(unarch.entries[i].Name) \in DOMAIN unarch.disk
                /\ unarch.disk[TargetOf(unarch.entries[i].Name)] = unarch.entries[i].Contents

\* C14: Unarchive writes an entry that begins with working-dir/ under the
\* parent of the working directory, an entry that begins with
\* docker/registry/v2/ into the cache directory, and no other entry anywhere.
C14_RoutedByPathStart ==
    unarch.done =>
        unarch.written =
            { TargetOf(unarch.entries[i].Name) :
                i \in { j \in 1..Len(unarch.entries) : Extractable(unarch.entries[j]) } }

-----------------------------------------------------------------------------
(* Archive builds over time                                                *)

MaxClock == 6
MaxBuilds == 3
MaxList == 2

ArchiveImages == { [Destination |-> DestOne], [Destination |-> DestTwo],
                   [Destination |-> DestThree] }

\* --since cutoffs: none (0) or a point in time
SinceCutoffs == 0..MaxClock

\* the working directory is new, or was filled by an earlier mirror-to-disk
\* of a release of the tool that wrote its history
InitArchive ==
    /\ FlowIdle /\ PlanIdle /\ ToolIdle
    /\ historyDir \in { <<>>, (1 :> {"sha256:a", "sha256:b"}) }
    /\ clock = 2 * TicksPerSecond
    /\ archive = EmptyTar
    /\ lastBuild = NoBuild

\* NewPermissiveMirrorArchive with opts.Since, then BuildArchive
ArchiveBuild ==
    /\ lastBuild.count < MaxBuilds
    /\ \E since \in SinceCutoffs, images \in SeqsUpTo(ArchiveImages, MaxList) :
        LET b == BuildArchive(historyDir, since, clock, images)
        IN /\ historyDir' = b.dir
           /\ archive' = b.tar
           /\ lastBuild' = [count |-> lastBuild.count + 1, since |-> since, images |-> images,
                            dirBefore |-> historyDir, added |-> b.added, err |-> b.err]
    /\ UNCHANGED <<clock, flowVars, planVars, toolVars>>

Tick ==
    /\ clock < MaxClock
    /\ clock' = clock + 1
    /\ UNCHANGED <<historyDir, archive, lastBuild, flowVars, planVars, toolVars>>

NextArchive == ArchiveBuild \/ Tick

SpecArchive == InitArchive /\ [][NextArchive]_vars

-----------------------------------------------------------------------------
(* Appends to the history store over time                                  *)

MaxAppends == 3

\* the digests a caller hands to Append
AppendBlobs == { {}, {"sha256:a"}, {"sha256:c", "sha256:d"} }

\* the history directory is empty, or holds the file of an earlier run
InitHistory ==
    /\ FlowIdle /\ PlanIdle /\ DeleteIdle /\ UnarchiveIdle /\ FilterIdle /\ FastPathIdle /\ CallIdle
    /\ historyDir \in { <<>>, (1 :> {"sha256:a", "sha256:b"}) }
    /\ clock = 2 * TicksPerSecond
    /\ archive = EmptyTar
    /\ lastBuild = NoBuild
    /\ lastAppend = NoAppend

\* NewHistory with a cutoff, then Append
AppendCall ==
    /\ lastAppend.count < MaxAppends
    /\ \E before \in SinceCutoffs, blobsToAppend \in AppendBlobs :
       \E r \in {HistoryAppend(historyDir, before, clock, blobsToAppend)} :
          /\ historyDir' = r.dir
          /\ lastAppend' = [count |-> lastAppend.count + 1, before |-> before,
                          blobsToAppend |-> blobsToAppend, dirBefore |-> historyDir,
                          err |-> r.err]
    /\ UNCHANGED <<clock, archive, lastBuild, del, unarch, fingerprints, fastPath, callVars, flowVars, planVars>>

NextHistory == AppendCall \/ Tick

SpecHistory == InitHistory /\ [][NextHistory]_vars

\* C16: every Append adds a history file that was not there and leaves every
\* file that was there with the digests it held, however close in time the
\* Appends are.
C16_AppendOnly ==
    lastAppend.count > 0 =>
        /\ \E f \in DOMAIN historyDir : f \notin DOMAIN lastAppend.dirBefore
        /\ \A f \in DOMAIN lastAppend.dirBefore :
              f \in DOMAIN historyDir /\ historyDir[f] = lastAppend.dirBefore[f]

\* the history a run is meant to read: the digests of the latest file, or of
\* the latest file before the cutoff; nothing when there is no such file
HistorySet(dir, before) ==
    LET eligible == { f \in DOMAIN dir : before # 0 => ParseRFC3339(f) < before }
    IN IF eligible = {} THEN {}
       ELSE dir[CHOOSE f \in eligible : \A g \in eligible : g <= f]

BlobsOfList(images) == UNION { GatherBlobs(images[i].Destination) : i \in 1..Len(images) }

C3_HistoryIsBeforePlusAdded ==
    lastBuild.count > 0 =>
        HistorySet(historyDir, 0) =
            HistorySet(lastBuild.dirBefore, 0) \cup lastBuild.added

\* C4: a BuildArchive writes exactly the blobs of the listed images that are
\* not in the history, each of them once.
C4_AddsExactlyTheDiffOnce ==
    lastBuild.count > 0 =>
        LET H == HistorySet(lastBuild.dirBefore, lastBuild.since)
        IN \A b \in AllBlobs :
            archive[b] = IF b \in BlobsOfList(lastBuild.images) \ H THEN 1 ELSE 0

\* C15: a BuildArchive over a working directory with no history file reads
\* the empty set with the empty-history error, filters no blob out, and
\* returns no error.
C15_EmptyHistoryBuildCompletes ==
    lastBuild.count > 0 /\ DOMAIN lastBuild.dirBefore = {} =>
        /\ HistoryRead(lastBuild.dirBefore, lastBuild.since)
               = [blobs |-> {}, err |-> EmptyHistoryError]
        /\ lastBuild.added = BlobsOfList(lastBuild.images)
        /\ lastBuild.err = ""

-----------------------------------------------------------------------------
(* The steps Process calls between collecting and stopping                 *)

NoFBC == <<>>

\* what Collect keeps of a catalog it read: the images of the catalog, the
\* catalog itself, and the entry of CatalogToFBCMap
CollectOperatorCatalog(acc, op, imgSpec, res) ==
    [ok |-> TRUE,
     related |-> acc.related
                    \o [k \in 1..Len(res.related) |-> BundleRelatedImage(res.related[k])]
                    \o <<CatalogRelatedImage(op, res.rebuiltTag)>>,
     fbc |-> (imgSpec.ReferenceWithTransport :>
                  [FilteredConfigPath |-> res.FilteredConfigPath,
                   ToRebuild |-> res.ToRebuild]) @@ acc.fbc]

\* one catalog of CollectOperator.Collect; acc = [ok, related, fbc]
CollectOperatorStep(o, cacheSet, failing, i, acc, op) ==
    IF ~acc.ok THEN acc
    ELSE IF ~ParseRef(op.Catalog).ok THEN [acc EXCEPT !.ok = FALSE]
    ELSE IF i \in failing
    THEN IF IsDiskToMirror(o) THEN [acc EXCEPT !.ok = FALSE] ELSE acc
    ELSE CollectOperatorCatalog(acc, op, ParseRef(op.Catalog),
                                CatalogFilterResult(o, cacheSet, op))

RECURSIVE CollectOperatorLoop(_, _, _, _, _, _)
CollectOperatorLoop(o, ops, cacheSet, failing, i, acc) ==
    IF i > Len(ops) THEN acc
    ELSE CollectOperatorLoop(o, ops, cacheSet, failing, i + 1,
                             CollectOperatorStep(o, cacheSet, failing, i, acc, ops[i]))

\* the orders in which a map of n entries can be iterated
Orders(n) == { f \in [1..n -> 1..n] : \A a, b \in 1..n : a # b => f[a] # f[b] }

\* the end of CollectOperator.Collect: the related images, in the iteration
\* order of their map, go through the planner of the mode
CollectOperatorSchema(o, acc, order) ==
    IF ~acc.ok THEN [ok |-> FALSE, AllImages |-> <<>>, CatalogToFBCMap |-> NoFBC]
    ELSE [ok |-> TRUE,
          AllImages |-> OperatorAllImages(o, [k \in 1..Len(acc.related) |->
                                                  acc.related[order[k]]]),
          CatalogToFBCMap |-> acc.fbc]

\* CollectOperator.Collect: failing are the catalogs whose digest cannot be
\* read, order is the iteration order of the related-images map
CollectOperator(o, ops, cacheSet, failing, order) ==
    CollectOperatorSchema(o, CollectOperatorLoop(o, ops, cacheSet, failing, 1,
                                 [ok |-> TRUE, related |-> <<>>, fbc |-> NoFBC]), order)

\* the number of related images Collect gathers from the catalogs it reads
RECURSIVE RelatedCountFrom(_, _, _)
RelatedCountFrom(ops, failing, i) ==
    IF i > Len(ops) THEN 0
    ELSE (IF i \in failing THEN 0 ELSE Len(ops[i].Related) + 1)
             + RelatedCountFrom(ops, failing, i + 1)

RelatedCount(ops, failing) == RelatedCountFrom(ops, failing, 1)

\* getUpdatedCopiedImages: the map of the schema that holds operator images
MergedCatalogToFBCMap(opSchema) ==
    IF opSchema.AllImages = <<>> THEN NoFBC ELSE opSchema.CatalogToFBCMap

\* image.WithMaxNestedPaths: the names after the (n-1)-th collapse into one
WithMaxNestedPaths(dest, n) ==
    LET spec == ParseRef(dest)
        names == (Len(spec.PathComponent) + 1) \div 2
        keep == SubSeq(spec.PathComponent, 1, 2 * (n - 1))
        tail == SubSeq(spec.PathComponent, 2 * n - 1, Len(spec.PathComponent))
        collapsed == [k \in 1..Len(tail) |-> IF tail[k] = "/" THEN "-" ELSE tail[k]]
    IN IF ~spec.ok THEN [ok |-> FALSE, dst |-> <<>>]
       ELSE IF names <= n THEN [ok |-> TRUE, dst |-> dest]
       ELSE [ok |-> TRUE,
             dst |-> <<spec.Transport>> \o spec.Domain \o <<"/">> \o keep \o collapsed
                         \o SubSeq(dest, Len(dest) - 1, Len(dest))]

\* withMaxNestedPaths: an empty list unless maxNestedPaths > 0
withMaxNestedPaths(in, maxNestedPaths) ==
    IF maxNestedPaths <= 0 THEN [ok |-> TRUE, out |-> <<>>]
    ELSE IF \E k \in 1..Len(in) : ~WithMaxNestedPaths(in[k].Destination, maxNestedPaths).ok
    THEN [ok |-> FALSE, out |-> <<>>]
    ELSE [ok |-> TRUE,
          out |-> [k \in 1..Len(in) |->
                     [in[k] EXCEPT !.Destination =
                         WithMaxNestedPaths(in[k].Destination, maxNestedPaths).dst]]]

\* excludeImages: drops the copies whose Origin, transport cut off, is blocked
excludeImages(images, excluded) ==
    LET imgOrigin(c) == IF Len(c.Origin) > 0 /\ c.Origin[1] \in Transports
                        THEN Tail(c.Origin) ELSE c.Origin
        blocked(c) == c.Origin # <<>> /\ \E k \in 1..Len(excluded) : excluded[k] = imgOrigin(c)
    IN SelectSeq(images, LAMBDA c : ~blocked(c))

\* the reference RebuildCatalog builds and pushes to
RebuildSrcCache(o, copyImage, configPath) ==
    LET filteredDir == FilepathDir(configPath)
        destRef == ParseRef(copyImage.Destination)
        replaced == ParseRef(ReplaceFirst(copyImage.Destination, o.Destination,
                                          <<dockerProtocol>> \o o.LocalStorageFQDN))
    IN IF ~destRef.ok THEN [ok |-> FALSE, ref |-> <<>>]
       ELSE CASE o.Mode = mirrorToDisk ->
                    [ok |-> TRUE, ref |-> SetTag(destRef, FilepathBase(filteredDir)).Reference]
              [] o.Mode = mirrorToMirror ->
                    IF ~replaced.ok THEN [ok |-> FALSE, ref |-> <<>>]
                    ELSE [ok |-> TRUE,
                          ref |-> SetTag(replaced, FilepathBase(filteredDir)).Reference]
              [] OTHER -> [ok |-> TRUE, ref |-> copyImage.Source]

\* catalogImageOnDisk: the layout directory and the wrapped error of os.Stat
catalogImageOnDisk(statErr) == ErrorfW(statErr)

\* GCRCatalogBuilder.RebuildCatalog on a filtered configuration Collect left
\* on disk; pushOk says whether BuildAndPush succeeds. Returns [err, pushed].
RebuildCatalog(o, copyImage, configPath, pushOk) ==
    LET src == RebuildSrcCache(o, copyImage, configPath)
    IN IF catalogImageOnDisk("") # "" THEN [err |-> TRUE, pushed |-> {}]
       ELSE IF ~src.ok \/ ~pushOk THEN [err |-> TRUE, pushed |-> {}]
       ELSE [err |-> FALSE, pushed |-> {src.ref}]

\* the loop without its two ways out: no copy is passed over for its source,
\* and the copies after a failed build are still looked at
RebuildStepEveryCopy(o, schema, failAt, acc, copyImage) ==
    LET ref == ParseRef(copyImage.Origin)
        known == ref.ok /\ ref.ReferenceWithTransport \in DOMAIN schema.CatalogToFBCMap
        result == schema.CatalogToFBCMap[ref.ReferenceWithTransport]
        built == RebuildCatalog(o, copyImage, result.FilteredConfigPath,
                                acc.builds + 1 # failAt)
    IN IF copyImage.Type # TypeOperatorCatalog THEN acc
       ELSE IF ~known THEN [acc EXCEPT !.err = TRUE]
       ELSE IF ~result.ToRebuild THEN acc
       ELSE [cache |-> acc.cache \cup built.pushed, err |-> acc.err \/ built.err,
             builds |-> acc.builds + 1, invoked |-> Append(acc.invoked, copyImage)]

\* one copy of the loop of RebuildCatalog.Rebuild; acc = [cache, err, builds,
\* invoked], invoked the copies handed to the builder.
\* The failAt-th BuildAndPush fails.
RebuildStep(o, schema, failAt, acc, copyImage) ==
    LET ref == ParseRef(copyImage.Origin)
        known == ref.ok /\ ref.ReferenceWithTransport \in DOMAIN schema.CatalogToFBCMap
        result == schema.CatalogToFBCMap[ref.ReferenceWithTransport]
        built == RebuildCatalog(o, copyImage, result.FilteredConfigPath,
                                acc.builds + 1 # failAt)
    IN IF acc.err THEN acc
       ELSE IF copyImage.Type # TypeOperatorCatalog THEN acc
       ELSE IF IsMirrorToMirror(o) /\ Contains(copyImage.Source, o.LocalStorageFQDN[1]) THEN acc
       ELSE IF ~known THEN [acc EXCEPT !.err = TRUE]
       ELSE IF ~result.ToRebuild THEN acc
       ELSE [cache |-> acc.cache \cup built.pushed, err |-> built.err,
             builds |-> acc.builds + 1, invoked |-> Append(acc.invoked, copyImage)]

RECURSIVE RebuildLoop(_, _, _, _, _)
RebuildLoop(o, schema, failAt, i, acc) ==
    IF i > Len(schema.AllImages) THEN acc
    ELSE RebuildLoop(o, schema, failAt, i + 1,
                     RebuildStep(o, schema, failAt, acc, schema.AllImages[i]))

\* RebuildCatalog.Rebuild
Rebuild(o, schema, cacheSet, failAt) ==
    IF IsMirrorToDisk(o) \/ IsMirrorToMirror(o)
    THEN RebuildLoop(o, schema, failAt, 1,
                     [cache |-> cacheSet, err |-> FALSE, builds |-> 0, invoked |-> <<>>])
    ELSE [cache |-> cacheSet, err |-> FALSE, builds |-> 0, invoked |-> <<>>]

\* addRebuiltCatalogs: ranges over the list as it was on entry
addRebuiltCatalogs(all) ==
    LET rebuilt(c) == c.Type = TypeOperatorCatalog /\ c.RebuiltTag # <<>>
        extra(c) == LET r == SetTag(ParseRef(c.Destination), c.RebuiltTag).ReferenceWithTransport
                    IN CopyImageSchema(r, r, c.Origin, TypeOperatorCatalog, <<>>)
        picked == SelectSeq(all, rebuilt)
    IN IF \E k \in 1..Len(all) : rebuilt(all[k]) /\ ~ParseRef(all[k].Destination).ok
       THEN [ok |-> FALSE, AllImages |-> all]
       ELSE [ok |-> TRUE, AllImages |-> all \o [k \in 1..Len(picked) |-> extra(picked[k])]]

-----------------------------------------------------------------------------
(* Collect of one catalog over what an earlier run left behind             *)

\* catalog entries: filtered with images, full with a target tag, filtered
\* from an OCI layout, full with a package selected
FastPathCatalogs ==
    { [NoTargets(CatalogByTag, FALSE) EXCEPT !.Related = <<ImgByDigest>>],
      [NoTargets(CatalogByTag, TRUE) EXCEPT !.TargetTag = <<"tt">>],
      [NoTargets(CatalogOCI, FALSE) EXCEPT !.Related = <<ImgByTag>>],
      [NoTargets(CatalogOther, TRUE) EXCEPT
           !.Packages = <<[Name |-> "op1", Channels |-> <<"stable">>]>>,
           !.Related = <<ImgByTagAndDigest>>] }

\* the digest file of the filter: missing, or holding a digest
DigestFiles == { NoSuchFile, ReadOk(RebuiltDigest), ReadOk("sha256:other") }

\* the digest of the filtered catalog in the cache: none, or a digest
CacheDigests == { ManifestUnknown, ReadOk(RebuiltDigest), ReadOk("sha256:other") }

\* the images of the filtered configuration on disk
OnDiskRelated == { <<>>, <<ImgByTag>>, <<ImgByDigest, ImgByTag>> }

InitFastPath ==
    /\ FlowIdle /\ PlanIdle /\ ArchIdle /\ DeleteIdle /\ UnarchiveIdle /\ AppendIdle /\ CallIdle
    /\ FilterIdle
    /\ \E mode \in Modes, op \in FastPathCatalogs, readFile \in DigestFiles,
          getDigest \in CacheDigests, onDisk \in OnDiskRelated :
        fastPath = [NoFastPath EXCEPT !.mode = mode, !.op = op, !.readFile = readFile,
                                      !.getDigest = getDigest, !.onDisk = onDisk]

\* the iteration of Collect for the catalog, from its fingerprint to its
\* entries in the related images and in CatalogToFBCMap
CollectCatalogCall ==
    /\ ~fastPath.done
    /\ \E res \in {CatalogFilterResultOf(PlanOptions(fastPath.mode), fastPath.op,
                                         fastPath.readFile, fastPath.getDigest,
                                         fastPath.onDisk)} :
       \E acc \in {CollectOperatorCatalog([ok |-> TRUE, related |-> <<>>, fbc |-> NoFBC],
                                          fastPath.op, ParseRef(fastPath.op.Catalog), res)} :
          fastPath' = [fastPath EXCEPT !.done = TRUE, !.filtered = res.filtered,
                                       !.related = acc.related, !.fbc = acc.fbc]
    /\ UNCHANGED <<del, unarch, lastAppend, fingerprints, callVars, flowVars, planVars, archVars>>

NextFastPath == CollectCatalogCall

SpecFastPath == InitFastPath /\ [][NextFastPath]_vars

\* the digest file exists and holds the digest the cache serves
DigestFileMatches ==
    /\ fastPath.readFile.err = "" /\ fastPath.getDigest.err = ""
    /\ fastPath.readFile.content = fastPath.getDigest.content

-----------------------------------------------------------------------------
(* Planning one related-images map twice                                   *)
(* The planners range over map[string][]RelatedImage; the order in which   *)
(* the keys of a Go map come out of range is not fixed by the language.    *)

\* the keys of the map: the component name of a catalog and a bundle name
RelatedKeys == {"ctlg", "bundle.v1"}

\* the maps Collect can hand to the planner of the mode
RelatedMaps ==
    UNION { [ks -> SeqsUpTo(RelatedCandidates, 1) \ {<<>>}] : ks \in SUBSET RelatedKeys }

\* the orders in which range can yield the keys of the map
RangeOrders(images) ==
    { order \in [1..Cardinality(DOMAIN images) -> DOMAIN images] :
        \A a, b \in DOMAIN order : a # b => order[a] # order[b] }

\* for _, relatedImgs := range images { for _, img := range relatedImgs
InRangeOrder(images, order) == ConcatAll([k \in DOMAIN order |-> images[order[k]]], 1)

InitTwice ==
    /\ FlowIdle /\ PlanIdle /\ ArchIdle /\ DeleteIdle /\ UnarchiveIdle /\ AppendIdle
    /\ FilterIdle /\ FastPathIdle /\ ManagerIdle
    /\ \E mode \in Modes, images \in RelatedMaps :
        twice = [NoPlannings EXCEPT !.mode = mode, !.images = images]

\* the planner of the mode over the map, as the end of Collect calls it
PrepareCopyBatchCall ==
    /\ Len(twice.runs) < Cardinality(RelatedKeys)
    /\ \E order \in RangeOrders(twice.images) :
        twice' = [twice EXCEPT !.runs =
                     Append(@, OperatorAllImages(PlanOptions(twice.mode),
                                                 InRangeOrder(twice.images, order)))]
    /\ UNCHANGED <<del, unarch, lastAppend, fingerprints, fastPath, mgr, flowVars, planVars,
                   archVars>>

NextTwice == PrepareCopyBatchCall

SpecTwice == InitTwice /\ [][NextTwice]_vars

\* C23: planning the same related images twice, in the same mode and with the
\* same options, gives the same copy list: same entries, same order.
C23_PlanningDeterministic ==
    Len(twice.runs) > 1 => twice.runs[1] = twice.runs[Len(twice.runs)]

-----------------------------------------------------------------------------
(* The collector managers of package collector                             *)
(* collectors is a variable of the package; a CollectorManager value holds *)
(* the log, the options and the configuration only.                        *)

MaxManagers == 2
MaxRegistered == 2

\* an image the collector of the kind plans, and one ParseRef rejects
GoodInput(kind) ==
    CASE kind = "release" -> RelatedImage(<<"cli">>, ImgByDigest, TypeOCPReleaseContent)
      [] kind = "helm" -> RelatedImage(<<>>, ImgByTag, TypeHelmImage)
      [] kind = "operator" -> BundleRelatedImage(ImgByTag)
      [] OTHER -> <<dockerProtocol>> \o ImgByTag

UnparsableInput(kind) ==
    CASE kind = "release" -> RelatedImage(<<"oauth">>, ImgUnparsable, TypeOCPReleaseContent)
      [] kind = "helm" -> RelatedImage(<<>>, ImgUnparsable, TypeHelmImage)
      [] kind = "operator" -> BundleRelatedImage(ImgUnparsable)
      [] OTHER -> ImgUnparsable

\* a collector with the one image it finds; fails: what it reads its images
\* from (a release payload, a chart, the configuration) cannot be fetched
ImageCollector(kind, input, fails) ==
    [kind |-> kind, fails |-> fails,
     images |-> IF kind = "additional" THEN <<>> ELSE <<input>>,
     names |-> IF kind = "additional" THEN <<input>> ELSE <<>>]

Registrable ==
    { ImageCollector(kind, GoodInput(kind), fails) : kind \in Collectors, fails \in BOOLEAN }
    \cup { ImageCollector(kind, UnparsableInput(kind), FALSE) : kind \in Collectors }

\* col.Collect(): [ok, result]
CollectOf(col, o) ==
    IF col.fails THEN [ok |-> FALSE, result |-> <<>>]
    ELSE PlannerOf(col.kind, o, col.images, col.names)

\* the loop of CollectAllImages over the package variable; acc = [cs, invoked, err]
RECURSIVE CollectAllImagesLoop(_, _, _, _)
CollectAllImagesLoop(cols, o, i, acc) ==
    IF i > Len(cols) THEN acc
    ELSE IF ~CollectOf(cols[i], o).ok
    THEN [acc EXCEPT !.invoked = Append(@, i), !.err = TRUE]
    ELSE CollectAllImagesLoop(cols, o, i + 1,
             [acc EXCEPT !.invoked = Append(@, i),
                         !.cs = Append(@, CollectOf(cols[i], o).result)])

InitManager ==
    /\ FlowIdle /\ PlanIdle /\ ArchIdle /\ DeleteIdle /\ UnarchiveIdle /\ AppendIdle
    /\ FilterIdle /\ FastPathIdle /\ TwiceIdle
    /\ \E mode \in Modes : mgr = [NoManagers EXCEPT !.mode = mode]

\* collector.New: a manager value, the package variable is not touched
New ==
    /\ \E m \in 1..MaxManagers :
        /\ m \notin mgr.managers
        /\ mgr' = [mgr EXCEPT !.managers = @ \cup {m}]
    /\ UNCHANGED <<del, unarch, lastAppend, fingerprints, fastPath, twice, flowVars, planVars,
                   archVars>>

\* o.AddCollector(collector) on the manager m
AddCollector ==
    /\ Len(mgr.collectors) < MaxRegistered
    /\ \E m \in mgr.managers, col \in Registrable :
        mgr' = [mgr EXCEPT !.collectors = Append(@, [by |-> m, col |-> col])]
    /\ UNCHANGED <<del, unarch, lastAppend, fingerprints, fastPath, twice, flowVars, planVars,
                   archVars>>

\* o.CollectAllImages() on the manager m
CollectAllImages ==
    /\ \E m \in mgr.managers :
       \E run \in {CollectAllImagesLoop([k \in DOMAIN mgr.collectors |-> mgr.collectors[k].col],
                                        PlanOptions(mgr.mode), 1,
                                        [cs |-> <<>>, invoked |-> <<>>, err |-> FALSE])} :
          mgr' = [mgr EXCEPT !.last = [of |-> m, invoked |-> run.invoked, cs |-> run.cs,
                                       err |-> run.err]]
    /\ UNCHANGED <<del, unarch, lastAppend, fingerprints, fastPath, twice, flowVars, planVars,
                   archVars>>

NextManager == New \/ AddCollector \/ CollectAllImages

SpecManager == InitManager /\ [][NextManager]_vars

\* C24: registration belongs to the manager: CollectAllImages of a manager
\* invokes only collectors that were added to that manager, so a manager
\* nothing was added to invokes none, whatever was added to other managers.
C24_RegistrationPerManager ==
    mgr.last.of # 0 =>
        \A k \in 1..Len(mgr.last.invoked) :
            mgr.collectors[mgr.last.invoked[k]].by = mgr.last.of

\* the collector was registered as one whose source cannot be fetched
Fatal(k) == mgr.collectors[k].col.fails

\* C25: CollectAllImages invokes the registered collectors one at a time in
\* registration order; no collector is invoked after the first one that
\* returns a fatal error; and a collector whose only trouble is an image that
\* does not parse returns no error.
C25_InOrderUntilFatal ==
    mgr.last.of # 0 =>
        /\ \A k \in 1..Len(mgr.last.invoked) : mgr.last.invoked[k] = k
        /\ \A k \in 1..Len(mgr.last.invoked) : \A j \in 1..(k - 1) : ~Fatal(j)
        /\ (\A k \in 1..Len(mgr.collectors) : ~Fatal(k))
               => ~mgr.last.err /\ Len(mgr.last.invoked) = Len(mgr.collectors)

-----------------------------------------------------------------------------
(* Process: the main flow and the goroutine of the cache registry          *)

flowctl == "flowctl"    \* pkg/cli/mirror-flow-controller.go
part006 == "part006"    \* the Process of the second flow controller source

\* time.Parse(time.DateOnly, s) of the dates of the model, in ticks
ParseDateOnly(s) == IF s \in DateOnlyStrings THEN TicksPerSecond ELSE 0

FilteredCatalog == [NoTargets(CatalogByTag, FALSE) EXCEPT !.Related = <<ImgByDigest>>]
FullCatalog == [NoTargets(CatalogByTag, TRUE) EXCEPT !.TargetTag = <<"tt">>]

\* the image set configurations of the model
FlowConfigs ==
    { [Operators |-> <<FilteredCatalog>>, AdditionalImages |-> <<>>, BlockedImages |-> <<>>],
      [Operators |-> <<FilteredCatalog, NoTargets(CatalogOther, FALSE)>>,
       AdditionalImages |-> <<>>, BlockedImages |-> <<>>],
      [Operators |-> <<FullCatalog>>, AdditionalImages |-> << <<dockerProtocol>> \o ImgByTag >>,
       BlockedImages |-> <<ImgByTag>>],
      [Operators |-> <<>>, AdditionalImages |-> <<ImgByTag, ImgByTag>>,
       BlockedImages |-> <<>>] }

\* the command lines of the model: each mode, plain, as a dry run and with
\* --max-nested-paths, and the lines validation is there to reject
FlowCommandLines ==
    LET with(c, dry, nested) ==
            [c EXCEPT !.opts.DryRun = dry, !.opts.MaxNestedPaths = nested]
    IN { with(ModeCommandLine(m), dry, 0) : m \in Modes, dry \in BOOLEAN }
       \cup { with(ModeCommandLine(m), FALSE, 2) : m \in Modes }
       \cup { with(ModeCommandLine(mirrorToMirror), FALSE, -1) }
       \cup { [opts |-> FlagsOf(ConfigFlag, FromDir, WorkspaceDir, FALSE, <<>>, 0),
               args |-> <<DockerDest>>],
              [opts |-> FlagsOf(<<>>, <<>>, <<>>, FALSE, <<>>, 0), args |-> <<FileDest>>],
              [opts |-> FlagsOf(ConfigFlag, <<>>, <<>>, FALSE, <<"2024-01-02">>, 0),
               args |-> <<FileDest>>] }

\* what an earlier run left in the cache: the filtered catalogs it rebuilt
PreviouslyRebuilt(cfg) ==
    { ParseRef(cachedCatalog(BaseOptions, cfg.Operators[k], digestOfFilter(cfg.Operators[k]))).Reference :
        k \in { j \in 1..Len(cfg.Operators) : ~isFullCatalog(cfg.Operators[j]) } }

Init ==
    /\ PlanIdle /\ ToolIdle
    /\ historyDir = <<>> /\ clock = 2 * TicksPerSecond /\ archive = EmptyTar
    /\ lastBuild = NoBuild
    /\ impl \in {flowctl, part006}
    /\ \E c \in FlowCommandLines : args = c.args /\ Options = c.opts
    /\ config \in FlowConfigs
    /\ portBound \in BOOLEAN
    /\ cache \in {{}, PreviouslyRebuilt(config)}
    /\ pc = "CheckArgs" /\ ret = "none" /\ reg = "notStarted"
    /\ copiedImages = EmptySchema /\ dispatched = <<>> /\ events = <<>>

Running(at) == pc = at /\ ret = "none"

\* validate.CheckArgs(args)
ProcessCheckArgs ==
    /\ Running("CheckArgs")
    /\ \E r \in {CheckArgs(args, Options)} :
          /\ Options' = r.opts
          /\ IF r.err # "" THEN ret' = "err" /\ pc' = "done"
             ELSE ret' = ret /\ pc' = "CreateDirectories"
    /\ UNCHANGED <<impl, args, config, portBound, reg, copiedImages, cache, dispatched,
                   events, planVars, archVars, toolVars>>

\* setup.CreateDirectories(): os.MkdirAll fails on an empty working directory
ProcessCreateDirectories ==
    /\ Running("CreateDirectories")
    /\ \E ok \in BOOLEAN :
        /\ Options.WorkingDir = <<>> => ~ok
        /\ IF ok THEN /\ Options' = [Options EXCEPT !.Function = "mirror"]
                      /\ ret' = ret /\ pc' = "ReadConfig"
           ELSE Options' = Options /\ ret' = "err" /\ pc' = "done"
    /\ UNCHANGED <<impl, args, config, portBound, reg, copiedImages, cache, dispatched,
                   events, planVars, archVars, toolVars>>

\* config.Read, and for disk-to-mirror the extraction of the archive
ProcessReadConfig ==
    /\ Running("ReadConfig")
    /\ \E ok \in BOOLEAN :
        IF ok THEN ret' = ret /\ pc' = "Setup" ELSE ret' = "err" /\ pc' = "done"
    /\ UNCHANGED <<impl, args, Options, config, portBound, reg, copiedImages, cache,
                   dispatched, events, planVars, archVars, toolVars>>

\* localStorage.Setup(): only the second source looks at its error
ProcessSetup ==
    /\ Running("Setup")
    /\ \E ok \in BOOLEAN :
        IF ok \/ impl = flowctl THEN ret' = ret /\ pc' = "StartLocalRegistry"
        ELSE ret' = "err" /\ pc' = "done"
    /\ UNCHANGED <<impl, args, Options, config, portBound, reg, copiedImages, cache,
                   dispatched, events, planVars, archVars, toolVars>>

\* go localStorage.StartLocalRegistry()
ProcessStartLocalRegistry ==
    /\ Running("StartLocalRegistry")
    /\ reg' = "spawned"
    /\ events' = Append(events, "startRegistry")
    /\ pc' = "CollectAllImages"
    /\ UNCHANGED <<impl, args, Options, config, portBound, ret, copiedImages, cache,
                   dispatched, planVars, archVars, toolVars>>

\* StartLocalRegistry, first half: the port check, os.Exit(1) when bound
RegistryCheckPort ==
    /\ reg = "spawned" /\ ret = "none"
    /\ IF portBound THEN reg' = "exited" /\ ret' = "exit" /\ pc' = "done"
       ELSE reg' = "checked" /\ ret' = ret /\ pc' = pc
    /\ UNCHANGED <<impl, args, Options, config, portBound, copiedImages, cache, dispatched,
                   events, planVars, archVars, toolVars>>

\* StartLocalRegistry, second half: ListenAndServe, os.Exit(1) when it fails
RegistryListenAndServe ==
    /\ reg = "checked" /\ ret = "none"
    /\ \E ok \in BOOLEAN :
        IF ok THEN reg' = "serving" /\ ret' = ret /\ pc' = pc
        ELSE reg' = "exited" /\ ret' = "exit" /\ pc' = "done"
    /\ UNCHANGED <<impl, args, Options, config, portBound, copiedImages, cache, dispatched,
                   events, planVars, archVars, toolVars>>

\* a Process that goes on to mirror whatever --dry-run says
AfterCollectMirrors(o, source) == IF source = part006 THEN "Prepare" ELSE "Rebuild"

\* where Process goes with the collected images: `if o.Options.DryRun`
AfterCollect(o, source) ==
    IF o.DryRun THEN "DryRun"
    ELSE IF source = part006 THEN "Prepare" ELSE "Rebuild"

\* collectManager.CollectAllImages() and getUpdatedCopiedImages; for a dry run
\* the flow turns to dryRun.Process, else to what its source does next
ProcessCollectAllImages ==
    /\ Running("CollectAllImages")
    /\ \E failing \in SUBSET (1..Len(config.Operators)) :
       \E order \in Orders(RelatedCount(config.Operators, failing)) :
       \E add \in {CollectAdditional(Options, config.AdditionalImages)} :
       \E op \in {CollectOperator(Options, config.Operators, cache, failing, order)} :
           IF add.ok /\ op.ok
           THEN /\ copiedImages' =
                     [AllImages |-> getUpdatedCopiedImages(<<add.AllImages, op.AllImages>>),
                      CatalogToFBCMap |-> MergedCatalogToFBCMap(op)]
                /\ ret' = ret
                /\ pc' = AfterCollect(Options, impl)
           ELSE copiedImages' = copiedImages /\ ret' = "err" /\ pc' = "done"
    /\ UNCHANGED <<impl, args, Options, config, portBound, reg, cache, dispatched, events,
                   planVars, archVars, toolVars>>

\* dryRun.Process and the return that follows it
ProcessDryRun ==
    /\ Running("DryRun")
    /\ \E ok \in BOOLEAN : ret' = IF ok THEN "ok" ELSE "err"
    /\ pc' = "done"
    /\ events' = Append(events, "dryRun")
    /\ UNCHANGED <<impl, args, Options, config, portBound, reg, copiedImages, cache,
                   dispatched, planVars, archVars, toolVars>>

\* second source only: withMaxNestedPaths, then excludeImages
ProcessPrepare ==
    /\ Running("Prepare")
    /\ \E nested \in {withMaxNestedPaths(copiedImages.AllImages, Options.MaxNestedPaths)} :
          IF nested.ok
          THEN /\ copiedImages' = [copiedImages EXCEPT
                       !.AllImages = excludeImages(nested.out, config.BlockedImages)]
               /\ ret' = ret /\ pc' = "Rebuild"
          ELSE copiedImages' = copiedImages /\ ret' = "err" /\ pc' = "done"
    /\ UNCHANGED <<impl, args, Options, config, portBound, reg, cache, dispatched, events,
                   planVars, archVars, toolVars>>

\* catalog.Rebuild(copiedImages): its error is logged and the flow goes on
ProcessRebuild ==
    /\ Running("Rebuild")
    /\ \E failAt \in 0..Len(copiedImages.AllImages) :
        cache' = Rebuild(Options, copiedImages, cache, failAt).cache
    /\ events' = Append(events, "rebuild")
    /\ pc' = "Batch"
    /\ UNCHANGED <<impl, args, Options, config, portBound, ret, reg, copiedImages,
                   dispatched, planVars, archVars, toolVars>>

\* batch.Worker(copiedImages): every copy of the list is dispatched
ProcessBatch ==
    /\ Running("Batch")
    /\ dispatched' = copiedImages.AllImages
    /\ events' = Append(events, "batch")
    /\ \E ok \in BOOLEAN :
        IF ok THEN ret' = ret /\ pc' = "Graph" ELSE ret' = "err" /\ pc' = "done"
    /\ UNCHANGED <<impl, args, Options, config, portBound, reg, copiedImages, cache,
                   planVars, archVars, toolVars>>

\* graph.Create
ProcessGraph ==
    /\ Running("Graph")
    /\ \E ok \in BOOLEAN :
        IF ok THEN /\ ret' = ret
                   /\ pc' = IF IsMirrorToDisk(Options) THEN "PostMirrorM2D"
                            ELSE "PostMirrorAny2M"
        ELSE ret' = "err" /\ pc' = "done"
    /\ events' = Append(events, "graph")
    /\ UNCHANGED <<impl, args, Options, config, portBound, reg, copiedImages, cache,
                   dispatched, planVars, archVars, toolVars>>

\* mirror-to-disk: addRebuiltCatalogs and BuildArchive. The first source
\* returns after the archive, the second goes on to stop the registry.
ProcessPostMirrorM2D ==
    /\ Running("PostMirrorM2D")
    /\ \E copiedSchema \in {addRebuiltCatalogs(copiedImages.AllImages)} :
       \E b \in {BuildArchive(historyDir, ParseDateOnly(Options.SinceString), clock,
                              copiedSchema.AllImages)} :
          IF ~copiedSchema.ok
          THEN /\ ret' = "err" /\ pc' = "done"
               /\ UNCHANGED <<events, historyDir, archive, lastBuild>>
          ELSE /\ historyDir' = b.dir
               /\ archive' = b.tar
               /\ lastBuild' = [count |-> lastBuild.count + 1,
                                since |-> ParseDateOnly(Options.SinceString),
                                images |-> copiedSchema.AllImages, dirBefore |-> historyDir,
                                added |-> b.added, err |-> b.err]
               /\ events' = Append(events, "archive")
               /\ IF b.err # "" THEN ret' = "err" /\ pc' = "done"
                  ELSE IF impl = flowctl THEN ret' = "ok" /\ pc' = "done"
                  ELSE ret' = ret /\ pc' = "StopLocalRegistry"
    /\ UNCHANGED <<impl, args, Options, config, portBound, reg, copiedImages, cache,
                   dispatched, clock, planVars, toolVars>>

\* the other modes: the cluster resources
ProcessPostMirrorAny2M ==
    /\ Running("PostMirrorAny2M")
    /\ events' = Append(events, "clusterResources")
    /\ \E ok \in BOOLEAN :
        IF ok THEN ret' = ret /\ pc' = "StopLocalRegistry"
        ELSE ret' = "err" /\ pc' = "done"
    /\ UNCHANGED <<impl, args, Options, config, portBound, reg, copiedImages, cache,
                   dispatched, planVars, archVars, toolVars>>

\* localStorage.StopLocalRegistry() and the return nil that ends Process
ProcessStopLocalRegistry ==
    /\ Running("StopLocalRegistry")
    /\ reg' = "stopped"
    /\ events' = Append(events, "stopRegistry")
    /\ ret' = "ok" /\ pc' = "done"
    /\ UNCHANGED <<impl, args, Options, config, portBound, copiedImages, cache, dispatched,
                   planVars, archVars, toolVars>>

Next ==
    \/ ProcessCheckArgs \/ ProcessCreateDirectories \/ ProcessReadConfig \/ ProcessSetup
    \/ ProcessStartLocalRegistry \/ RegistryCheckPort \/ RegistryListenAndServe
    \/ ProcessCollectAllImages \/ ProcessDryRun \/ ProcessPrepare \/ ProcessRebuild
    \/ ProcessBatch \/ ProcessGraph \/ ProcessPostMirrorM2D \/ ProcessPostMirrorAny2M
    \/ ProcessStopLocalRegistry

Spec == Init /\ [][Next]_vars

\* position of a phase in the log of the run, 0 when it did not happen
Pos(e) == IndexOf(events, e)

\* a dispatched copy reads the rebuilt catalog out of the cache registry
SourceIsRebuiltTag(c) ==
    /\ c.Type = TypeOperatorCatalog
    /\ c.RebuiltTag # <<>>
    /\ Contains(c.Source, LocalStorageFQDN[1])
    /\ ParseRef(c.Source).ok
    /\ ParseRef(c.Source).Tag = c.RebuiltTag

\* C1: in mirror-to-disk and mirror-to-mirror, a copy dispatched from a
\* catalog's rebuilt tag finds the rebuilt catalog in the cache registry under
\* that tag, and the rebuild phase comes before the batch phase.
C1_RebuiltBeforeDispatch ==
    (IsMirrorToDisk(Options) \/ IsMirrorToMirror(Options)) =>
        /\ Pos("batch") > 0 => (Pos("rebuild") > 0 /\ Pos("rebuild") < Pos("batch"))
        /\ \A k \in 1..Len(dispatched) :
               SourceIsRebuiltTag(dispatched[k]) => InCache(cache, dispatched[k].Source)

\* C9: a run of Process that returns without error started the cache registry
\* before the batch phase and stopped it, after the archive build in
\* mirror-to-disk and after the cluster resources in the other modes.
C9_RegistryStartedAndStopped ==
    ret = "ok" =>
        /\ Pos("startRegistry") > 0
        /\ Pos("batch") > 0 => Pos("startRegistry") < Pos("batch")
        /\ Pos("stopRegistry") > 0
        /\ Pos("archive") > 0 => Pos("archive") < Pos("stopRegistry")
        /\ Pos("clusterResources") > 0 => Pos("clusterResources") < Pos("stopRegistry")

\* C10: when the port of the cache registry is already bound, no batch copy is
\* dispatched and no archive or cluster resource is produced, however the
\* registry goroutine and the main flow interleave.
C10_BoundPortStopsTheRun ==
    portBound =>
        /\ dispatched = <<>>
        /\ Pos("batch") = 0 /\ Pos("archive") = 0 /\ Pos("clusterResources") = 0

\* the catalog copies of the list Rebuild is called with
CatalogCopies ==
    { i \in 1..Len(copiedImages.AllImages) :
        copiedImages.AllImages[i].Type = TypeOperatorCatalog }

\* Collect recorded a filter result for the catalog of the copy
HasFilterResult(c) ==
    /\ ParseRef(c.Origin).ok
    /\ ParseRef(c.Origin).ReferenceWithTransport \in DOMAIN copiedImages.CatalogToFBCMap

FilterResultOf(c) == copiedImages.CatalogToFBCMap[ParseRef(c.Origin).ReferenceWithTransport]

\* the run of Rebuild on the list, every BuildAndPush succeeding
RebuildRun == Rebuild(Options, copiedImages, cache, 0)

\* how often the run handed a copy of the catalog to the builder
BuildsOf(origin) ==
    Cardinality({ k \in 1..Len(RebuildRun.invoked) : RebuildRun.invoked[k].Origin = origin })

\* C26: in mirror-to-disk and mirror-to-mirror, Rebuild hands to the builder
\* the catalog of every catalog copy whose filter result has ToRebuild and of
\* no copy whose filter result has not; in disk-to-mirror it hands none.
C26_BuildsWhatIsToRebuild ==
    Running("Rebuild") =>
        IF IsMirrorToDisk(Options) \/ IsMirrorToMirror(Options)
        THEN \A i \in CatalogCopies :
                HasFilterResult(copiedImages.AllImages[i]) =>
                    (FilterResultOf(copiedImages.AllImages[i]).ToRebuild
                        <=> BuildsOf(copiedImages.AllImages[i].Origin) > 0)
        ELSE RebuildRun.invoked = <<>>

\* C30: in mirror-to-mirror, where a catalog has two copies in the list, one
\* run of Rebuild hands each catalog to the builder at most once.
C30_OneBuildPerCatalog ==
    (Running("Rebuild") /\ IsMirrorToMirror(Options)) =>
        \A i \in CatalogCopies : BuildsOf(copiedImages.AllImages[i].Origin) <= 1

\* a mirror-to-mirror run reached Rebuild with two copies of a catalog in its
\* list, and Rebuild hands that catalog to the builder
C30_Witness ==
    /\ Running("Rebuild") /\ IsMirrorToMirror(Options)
    /\ \E i, j \in CatalogCopies :
        /\ i # j
        /\ copiedImages.AllImages[i].Origin = copiedImages.AllImages[j].Origin
        /\ BuildsOf(copiedImages.AllImages[i].Origin) = 1

\* the configured catalogs without those whose digest cannot be resolved
RECURSIVE OtherCatalogs(_, _, _)
OtherCatalogs(ops, failing, i) ==
    IF i > Len(ops) THEN <<>>
    ELSE (IF i \in failing THEN <<>> ELSE <<ops[i]>>) \o OtherCatalogs(ops, failing, i + 1)

\* C27: in every mode, when the digest of some catalogs cannot be resolved,
\* Collect returns what it returns for the other catalogs alone: they are
\* all collected and the failure makes no error.
C27_UnresolvedCatalogSkipped ==
    Running("CollectAllImages") =>
        \A failing \in SUBSET (1..Len(config.Operators)) :
            \A order \in Orders(RelatedCount(config.Operators, failing)) :
                CollectOperator(Options, config.Operators, cache, failing, order)
                    = CollectOperator(Options, OtherCatalogs(config.Operators, failing, 1),
                                      cache, {}, order)

\* the phases of Process that mirror or write what was mirrored
MirroringPhases == {"rebuild", "batch", "graph", "archive", "clusterResources"}

\* C28: with --dry-run, in any mode, Process never runs the catalog rebuild,
\* the batch worker, the graph image build, the archive build or the
\* generation of cluster resources, and no copy is dispatched.
C28_DryRunMirrorsNothing ==
    Options.DryRun =>
        /\ \A k \in 1..Len(events) : events[k] \notin MirroringPhases
        /\ dispatched = <<>>

\* a dry run that collected images with catalogs and returned
C28_Witness ==
    /\ Options.DryRun /\ Pos("dryRun") > 0 /\ pc = "done"
    /\ CatalogCopies # {}
    /\ Options.From # <<>>

\* C29: with --max-nested-paths 0 or negative the nested-paths step returns
\* the copy list as it got it: same copies, same order, same destinations.
C29_NoNestingKeepsTheList ==
    (Running("Prepare") /\ Options.MaxNestedPaths <= 0) =>
        /\ withMaxNestedPaths(copiedImages.AllImages, Options.MaxNestedPaths).ok
        /\ withMaxNestedPaths(copiedImages.AllImages, Options.MaxNestedPaths).out
               = copiedImages.AllImages

-----------------------------------------------------------------------------
(* Argument validation on its own: every combination of the flags          *)

DestinationArgs ==
    { <<>>, <<FileDest>>, <<DockerDest>>, << <<fileProtocol, "out", "/", "dry-run">> >>,
      << <<dockerProtocol, "registry", "/", "signatures">> >> }

\* a --from directory whose path has a reserved word
FromKeyWordDir == <<fileProtocol, "in", "/", "helm">>

InitValidate ==
    /\ PlanIdle /\ ArchIdle /\ ToolIdle
    /\ impl \in {flowctl, part006}
    /\ args \in DestinationArgs
    /\ \E cfgPath \in {<<>>, ConfigFlag}, from \in {<<>>, FromDir, <<"in">>, FromKeyWordDir},
          workspace \in {<<>>, WorkspaceDir, <<"ws">>}, dry \in BOOLEAN,
          since \in {<<>>, <<"2024-01-02">>, <<"yesterday">>} :
        Options = FlagsOf(cfgPath, from, workspace, dry, since, 0)
    /\ config = EmptyConfig /\ portBound = FALSE /\ cache = {}
    /\ pc = "CheckArgs" /\ ret = "none" /\ reg = "notStarted"
    /\ copiedImages = EmptySchema /\ dispatched = <<>> /\ events = <<>>

SpecValidate == InitValidate /\ [][ProcessCheckArgs]_vars

\* CheckArgs returned nil: Process goes on to set up the directories
Accepted == pc = "CreateDirectories"

\* the destination argument has the transport
HasDest(transport) == \E i \in 1..Len(args) : Contains(args[i], transport)

\* C7: for every command line CheckArgs accepts, the mode is disk-to-mirror
\* for --from with a docker:// destination, mirror-to-mirror for --workspace
\* with a docker:// destination, and mirror-to-disk for neither flag with a
\* file:// destination.
C7_ModeFollowsFlags ==
    Accepted =>
        /\ (Options.From # <<>> /\ HasDest(dockerProtocol)) => Options.Mode = diskToMirror
        /\ (Options.Workspace # <<>> /\ HasDest(dockerProtocol))
               => Options.Mode = mirrorToMirror
        /\ (Options.From = <<>> /\ Options.Workspace = <<>> /\ HasDest(fileProtocol))
               => Options.Mode = mirrorToDisk

\* C8: a command line with both --from and --workspace is not accepted.
C8_FromAndWorkspaceRejected ==
    (Options.From # <<>> /\ Options.Workspace # <<>>) => ~Accepted

\* a reserved working-directory word occurs in a destination argument
DestinationHasKeyWord == \E i \in 1..Len(args) : checkKeyWord(keyWords, args[i]) # ""

\* a reserved working-directory word occurs in the --from path
FromHasKeyWord == checkKeyWord(keyWords, Options.From) # ""

\* C22: a command line whose destination or whose --from path contains one of
\* the reserved working-directory keywords is not accepted.
C22_KeyWordsRejected ==
    (DestinationHasKeyWord \/ FromHasKeyWord) => ~Accepted

=============================================================================
